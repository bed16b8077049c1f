------------------------- MODULE IECBusHandlerProofs -------------------------
(***************************************************************************)
(* Proofs about IECBusHandler for any set of devices and addresses.        *)
(*                                                                         *)
(* The roles of the handler are followed through the whole of task(): an   *)
(* action may rely on P_LISTENING or P_TALKING only because no interrupt   *)
(* touches them, because the register copy of m_flags holds the same roles *)
(* as m_flags (LoadFlags/StoreFlags), and because the program counter      *)
(* inside a callback implies the role that led there.                      *)
(***************************************************************************)
EXTENDS IECBusHandler, TLAPS

USE DEF ResetBranch, InEnd

\* The RESET branch of task().
ResetSteps == ResetEdge \/ ResetLines \/ ResetEnable \/ ResetAttach \/ ResetDevices

\* The bus master follows CLOSE by UNLISTEN or by a secondary address only, and
\* the console leaves the bus alone.
Orderly ==
    /\ AfterClose \subseteq {"UNLISTEN", "secondary"}
    /\ ConsoleCommands = {}

PcRole ==
    /\ pc \in {"listenTask", "listenReady", "canWrite"} => "P_LISTENING" \in flags
    /\ pc = "canRead" => "P_TALKING" \in flags

RegisterCopy ==
    pc = "storeReset" =>
        /\ "P_LISTENING" \in reg <=> "P_LISTENING" \in flags
        /\ "P_TALKING" \in reg <=> "P_TALKING" \in flags
        /\ "P_ATN" \in reg => "P_ATN" \in flags

\* ResetEdge has cleared m_flags; only the interrupt has run since.
ResetClears == pc \in ResetBranch => flags \cap Roles = {}

\* Outside the RESET branch no line is driven without a role or an ATN to answer.
DrivenForReason ==
    flags \cap (Roles \cup {"P_ATN"}) = {} /\ race # "lostUpdate" /\ pc # "resetLines"
        => ~dataLow /\ ~clkLow

\* The inductive invariant.
IInv ==
    /\ TypeOK
    /\ cpc = "idle" /\ slept = "never"
    /\ RoleMatchesDevice
    /\ NoNullDevice
    /\ PcRole
    /\ RegisterCopy
    /\ ResetClears
    /\ AtnHoldsData
    /\ DrivenForReason

\* The byte loop of an ATN sequence from an orderly master: a CLOSE byte went to
\* the addressed device or to none, and never precedes UNTALK.
LEMMA OrderlySequences ==
    ASSUME Orderly, NEW cmd, NEW s \in AtnSequences(cmd)
    PROVE  /\ s.cmd = cmd
           /\ s.closed = {} \/ (s.addr \in Devices /\ s.closed = {s.addr} /\ cmd # "UNTALK")
  BY DEF AtnSequences, AddressedUs, Addressed, Orderly, SameLowBits

LEMMA NoDevice == NULL \notin Devices
  BY NULLAssumption, DevicesAssumption

LEMMA InitIInv == Init => IInv
  BY NoDevice DEF Init, IInv, TypeOK, RoleMatchesDevice, NoNullDevice, PcRole,
     RegisterCopy, ResetClears, AtnHoldsData, DrivenForReason, Flags, Roles, Callbacks

\* The interrupt handler, whatever task() is doing.
LEMMA InterruptIInv == IInv /\ atnInterruptFcn => IInv'
  <1>. SUFFICES ASSUME IInv, atnInterruptFcn PROVE IInv'
    OBVIOUS
  <1>. USE NoDevice DEF IInv, atnInterruptFcn, atnRequest, pins, console
  <1>a. /\ flags' \in {flags, (flags \cup {"P_ATN"}) \ {"P_DONE"}}
        /\ clkLow' \in {clkLow, FALSE} /\ dataLow' \in {dataLow, TRUE} /\ race' \in {race, "none"}
        /\ irq' = FALSE
        /\ UNCHANGED <<atn, rst, attached, enabled, cpc, slept, inTask, cur, pc, reg, link>>
    OBVIOUS
  <1>1. TypeOK'
    BY <1>a, ZenonT(60) DEF TypeOK, Flags
  <1>2. RoleMatchesDevice'
    BY DEF RoleMatchesDevice, Roles
  <1>3. NoNullDevice' /\ PcRole' /\ RegisterCopy' /\ ResetClears' /\ cpc' = "idle" /\ slept' = "never"
    BY DEF NoNullDevice, PcRole, RegisterCopy, ResetClears, Roles
  <1>4. AtnHoldsData'
    BY DEF AtnHoldsData
  <1>5. DrivenForReason'
    BY <1>a DEF DrivenForReason, Roles
  <1>. QED
    BY <1>1, <1>2, <1>3, <1>4, <1>5

\* The RESET section of task().
LEMMA ResetIInv ==
    IInv /\ (LoadFlags \/ StoreFlags \/ ResetHeld \/ ResetSteps \/ CheckEnabled)
        => IInv'
  <1>. SUFFICES ASSUME IInv,
                       LoadFlags \/ StoreFlags \/ ResetHeld \/ ResetSteps \/ CheckEnabled
                PROVE  IInv'
    OBVIOUS
  <1>. USE NoDevice DEF IInv, bus, pins, console
  <1>1. CASE LoadFlags
    BY <1>1 DEF LoadFlags, TypeOK, RoleMatchesDevice, NoNullDevice, PcRole, RegisterCopy, ResetClears,
       AtnHoldsData, DrivenForReason, Flags, Roles, Callbacks
  <1>2. CASE StoreFlags
    <2>1. TypeOK' /\ NoNullDevice' /\ PcRole' /\ RegisterCopy' /\ ResetClears' /\ cpc' = "idle" /\ slept' = "never"
      BY <1>2 DEF StoreFlags, TypeOK, NoNullDevice, PcRole, RegisterCopy, ResetClears,
         Flags, Callbacks
    <2>2. RoleMatchesDevice'
      BY <1>2 DEF StoreFlags, RoleMatchesDevice, RegisterCopy, Roles
    <2>3. AtnHoldsData'
      BY <1>2 DEF StoreFlags, AtnHoldsData, RegisterCopy
    <2>4. DrivenForReason'
      BY <1>2 DEF StoreFlags, DrivenForReason, RegisterCopy, Roles
    <2>. QED
      BY <2>1, <2>2, <2>3, <2>4
  <1>3. CASE ResetEdge
    BY <1>3 DEF ResetEdge, TypeOK, RoleMatchesDevice, NoNullDevice, PcRole, RegisterCopy, ResetClears,
       AtnHoldsData, DrivenForReason, Flags, Roles, Callbacks
  <1>4. CASE ResetLines \/ ResetEnable \/ ResetAttach \/ ResetDevices
    <2>1. flags \cap Roles = {} /\ pc \in ResetBranch
      BY <1>4 DEF ResetLines, ResetEnable, ResetAttach, ResetDevices, ResetClears
    <2>2. /\ UNCHANGED <<atn, rst, irq, flags, inTask, cur, reg, cpc, slept>>
          /\ enabled' \in {enabled, TRUE} /\ attached' \in {attached, TRUE}
          /\ link' \in {link, [d \in Devices |-> "idle"]}
          /\ pc' \in {"resetEnable", "resetAttach", "resetDevices", "check"}
      BY <1>4 DEF ResetLines, ResetEnable, ResetAttach, ResetDevices
    <2>3. \/ UNCHANGED <<clkLow, dataLow, race>> /\ pc # "resetLines"
          \/ /\ clkLow' = FALSE /\ dataLow' = FALSE
             /\ race' = IF "P_ATN" \in flags THEN "resetRelease" ELSE "none"
      BY <1>4 DEF ResetLines, ResetEnable, ResetAttach, ResetDevices
    <2>4. TypeOK'
      <3>1. link' \in [Devices -> {"idle", "listening", "talking"}]
        BY <2>2 DEF TypeOK
      <3>2. /\ enabled' \in BOOLEAN /\ attached' \in BOOLEAN
            /\ clkLow' \in BOOLEAN /\ dataLow' \in BOOLEAN
        BY <2>2, <2>3, Zenon DEF TypeOK
      <3>3. race' \in {"none", "lostUpdate", "resetRelease"}
        BY <2>3 DEF TypeOK
      <3>4. pc' \in ResetBranch \cup {"check"}
        BY <2>2
      <3>. QED
        BY <2>2, <3>1, <3>2, <3>3, <3>4 DEF TypeOK
    <2>5. RoleMatchesDevice' /\ AtnHoldsData' /\ DrivenForReason'
      BY <2>1, <2>2, <2>3 DEF RoleMatchesDevice, AtnHoldsData, DrivenForReason, Roles
    <2>6. NoNullDevice' /\ PcRole' /\ RegisterCopy' /\ ResetClears' /\ cpc' = "idle" /\ slept' = "never"
      BY <2>1, <2>2 DEF NoNullDevice, PcRole, RegisterCopy, ResetClears
    <2>. QED
      BY <2>4, <2>5, <2>6
  <1>5. CASE ResetHeld
    BY <1>5 DEF ResetHeld, TypeOK, RoleMatchesDevice, NoNullDevice, PcRole, RegisterCopy, ResetClears,
       AtnHoldsData, DrivenForReason, Flags, Roles, Callbacks
  <1>6. CASE CheckEnabled
    BY <1>6 DEF CheckEnabled, TypeOK, RoleMatchesDevice, NoNullDevice, PcRole, RegisterCopy, ResetClears,
       AtnHoldsData, DrivenForReason, Flags, Roles, Callbacks
  <1>. QED
    BY <1>1, <1>2, <1>3, <1>4, <1>5, <1>6 DEF ResetSteps

\* A poll of the ATN line, at the start of task() and after a missed edge.
LEMMA PollIInv == IInv /\ (PollATN \/ LeaveTask) => IInv'
  <1>. SUFFICES ASSUME IInv, PollATN \/ LeaveTask PROVE IInv'
    OBVIOUS
  <1>. USE NoDevice DEF IInv, bus, pins, console
  <1>a. /\ \/ UNCHANGED <<flags, clkLow, dataLow, race>>
           \/ flags' = (flags \cup {"P_ATN"}) \ {"P_DONE"} /\ ~clkLow' /\ dataLow' /\ race' = "none"
              /\ clkLow' \in BOOLEAN /\ dataLow' \in BOOLEAN
        /\ pc' \in {"atn", "top"}
        /\ UNCHANGED <<atn, rst, irq, attached, enabled, cpc, slept, inTask, cur, reg, link>>
    BY DEF PollATN, LeaveTask, atnRequest
  <1>b. /\ flags' \in {flags, (flags \cup {"P_ATN"}) \ {"P_DONE"}}
        /\ clkLow' \in {clkLow, FALSE} /\ dataLow' \in {dataLow, TRUE} /\ race' \in {race, "none"}
    BY DEF PollATN, LeaveTask, atnRequest
  <1>1. TypeOK'
    BY <1>a, <1>b DEF TypeOK, Flags
  <1>2. RoleMatchesDevice'
    BY <1>a DEF RoleMatchesDevice, Roles
  <1>3. NoNullDevice' /\ PcRole' /\ RegisterCopy' /\ ResetClears' /\ AtnHoldsData' /\ cpc' = "idle" /\ slept' = "never"
    BY <1>a DEF NoNullDevice, PcRole, RegisterCopy, ResetClears, AtnHoldsData
  <1>4. DrivenForReason'
    BY <1>a DEF DrivenForReason, PollATN, LeaveTask
  <1>. QED
    BY <1>1, <1>2, <1>3, <1>4

\* The parts of IInv that every end of handleATNSequence re-establishes alike:
\* what is left to show is that its flags, device and links still agree.
LEMMA AfterATNIInv ==
    ASSUME IInv, NEW f, f \subseteq Flags, "P_ATN" \notin f, AfterATN(f),
           inTask' \in BOOLEAN, clkLow' \in BOOLEAN, dataLow' \in BOOLEAN,
           cur' \in Devices \cup {NULL},
           link' \in [Devices -> {"idle", "listening", "talking"}],
           RoleMatchesDevice',
           f \cap Roles = {} => ~dataLow' /\ ~clkLow'
    PROVE  IInv'
  <1>. USE DEF IInv, AfterATN, console
  <1>1. TypeOK'
    BY DEF TypeOK
  <1>2. NoNullDevice' /\ PcRole' /\ RegisterCopy' /\ ResetClears' /\ AtnHoldsData' /\ cpc' = "idle" /\ slept' = "never"
    BY DEF NoNullDevice, PcRole, RegisterCopy, ResetClears, AtnHoldsData
  <1>3. DrivenForReason'
    BY DEF DrivenForReason
  <1>. QED
    BY <1>1, <1>2, <1>3

\* What the byte loop leaves, before the command itself is carried out.
LEMMA BytesType ==
    ASSUME IInv, NEW s
    PROVE  /\ FlagsAfterBytes(s) \subseteq Flags
           /\ "P_ATN" \notin FlagsAfterBytes(s)
           /\ LinkAfterBytes(s) \in [Devices -> {"idle", "listening", "talking"}]
           /\ s.closed = {} => /\ FlagsAfterBytes(s) \cap Roles = flags \cap Roles
                               /\ LinkAfterBytes(s) = link
  BY DEF IInv, TypeOK, FlagsAfterBytes, LinkAfterBytes, Flags, Roles

LEMMA IdleLinesType ==
    ASSUME TypeOK, NEW f, NEW received \in BOOLEAN, IdleLines(f, receiveIECByteATN(received))
    PROVE  /\ inTask' \in BOOLEAN /\ clkLow' \in BOOLEAN /\ dataLow' \in BOOLEAN
           /\ f \cap Roles = {} => ~dataLow' /\ ~clkLow'
  BY DEF TypeOK, IdleLines, receiveIECByteATN

\* The end of a role (UNLISTEN, UNTALK).
LEMMA EndRoleIInv ==
    ASSUME IInv, NEW role \in Roles, NEW s, EndRole(role, s),
           s.closed = {} \/ role = "P_LISTENING"
    PROVE  IInv'
  <1>. DEFINE f == FlagsAfterBytes(s)
  <1>1. /\ f \subseteq Flags /\ "P_ATN" \notin f
        /\ LinkAfterBytes(s) \in [Devices -> {"idle", "listening", "talking"}]
    BY BytesType
  <1>2. /\ cur' \in Devices \cup {NULL}
        /\ link' \in [Devices -> {"idle", "listening", "talking"}]
    BY <1>1 DEF EndRole, Tell, IInv, TypeOK
  <1>3. /\ inTask' \in BOOLEAN /\ clkLow' \in BOOLEAN /\ dataLow' \in BOOLEAN
        /\ (f \ {role}) \cap Roles = {} => ~dataLow' /\ ~clkLow'
    BY IdleLinesType DEF EndRole, IInv
  <1>4. AfterATN(f \ {role}) /\ flags' = f \ {role}
    BY DEF EndRole, AfterATN
  <1>5. RoleMatchesDevice'
    <2>1. CASE role \in f
      <3>1. (f \ {role}) \cap Roles = {}
        BY <2>1 DEF FlagsAfterBytes, IInv, RoleMatchesDevice, Roles
      <3>. QED
        BY <3>1, <1>4 DEF RoleMatchesDevice, Roles
    <2>2. CASE role \notin f
      <3>1. s.closed = {}
        BY <2>2 DEF FlagsAfterBytes
      <3>2. f \cap Roles = flags \cap Roles /\ link' = link /\ cur' = cur
        BY <2>2, <3>1, BytesType DEF EndRole
      <3>. QED
        BY <3>2, <1>4 DEF RoleMatchesDevice, Roles, IInv
    <2>. QED
      BY <2>1, <2>2
  <1>. QED
    <2>. HIDE DEF f
    <2>. QED
      BY <1>1, <1>2, <1>3, <1>4, <1>5, AfterATNIInv

\* LISTEN and TALK that no device of ours answers to.
LEMMA NobodyIInv ==
    ASSUME IInv, NEW s, s.closed = {}, link' = LinkAfterBytes(s), UNCHANGED cur,
           IdleLines(FlagsAfterBytes(s), receiveIECByteATN(FALSE)),
           AfterATN(FlagsAfterBytes(s))
    PROVE  IInv'
  <1>. DEFINE f == FlagsAfterBytes(s)
  <1>1. /\ f \subseteq Flags /\ "P_ATN" \notin f /\ f \cap Roles = flags \cap Roles
        /\ link' = link
    BY BytesType
  <1>2. /\ inTask' \in BOOLEAN /\ clkLow' \in BOOLEAN /\ dataLow' \in BOOLEAN
        /\ f \cap Roles = {} => ~dataLow' /\ ~clkLow'
    BY IdleLinesType DEF IInv
  <1>3. RoleMatchesDevice'
    BY <1>1 DEF RoleMatchesDevice, Roles, IInv, AfterATN
  <1>4. cur' \in Devices \cup {NULL} /\ link' \in [Devices -> {"idle", "listening", "talking"}]
    BY <1>1 DEF IInv, TypeOK
  <1>5. AfterATN(f)
    OBVIOUS
  <1>. QED
    <2>. HIDE DEF f
    <2>. QED
      BY <1>1, <1>2, <1>3, <1>4, <1>5, AfterATNIInv

LEMMA HandleIInv == Orderly /\ IInv /\ handleATNSequence => IInv'
  <1>. SUFFICES ASSUME Orderly, IInv, handleATNSequence PROVE IInv'
    OBVIOUS
  <1>0. NoBytes.closed = {}
    BY DEF NoBytes
  <1>1. CASE handleUnlisten
    <2>1. PICK s \in AtnSequences("UNLISTEN") \cup {NoBytes} : EndRole("P_LISTENING", s)
      BY <1>1 DEF handleUnlisten
    <2>. QED
      BY <2>1, EndRoleIInv DEF Roles
  <1>2. CASE handleUntalk
    <2>1. PICK s \in AtnSequences("UNTALK") \cup {NoBytes} : EndRole("P_TALKING", s)
      BY <1>2 DEF handleUntalk
    <2>2. s.closed = {}
      BY <1>0, OrderlySequences
    <2>. QED
      BY <2>1, <2>2, EndRoleIInv DEF Roles
  <1>3. CASE handleListen
    <2>. PICK s \in AtnSequences("LISTEN") :
           /\ IF findDevice(s.addr) # NULL
              THEN /\ cur' = s.addr
                   /\ link' = Tell(LinkAfterBytes(s), s.addr, "listening")
                   /\ dataLow' = TRUE
                   /\ UNCHANGED <<clkLow, inTask>>
                   /\ AfterATN((FlagsAfterBytes(s) \ {"P_TALKING"}) \cup {"P_LISTENING"})
              ELSE /\ link' = LinkAfterBytes(s)
                   /\ UNCHANGED cur
                   /\ IdleLines(FlagsAfterBytes(s), receiveIECByteATN(FALSE))
                   /\ AfterATN(FlagsAfterBytes(s))
      BY <1>3 DEF handleListen
    <2>1. CASE findDevice(s.addr) # NULL
      <3>. DEFINE f == (FlagsAfterBytes(s) \ {"P_TALKING"}) \cup {"P_LISTENING"}
      <3>1. s.addr \in Devices
        BY <2>1 DEF findDevice
      <3>2. f \subseteq Flags /\ "P_ATN" \notin f /\ AfterATN(f) /\ flags' = f
        BY <2>1, BytesType DEF Flags, AfterATN
      <3>3. /\ cur' = s.addr
            /\ link' \in [Devices -> {"idle", "listening", "talking"}]
            /\ link'[s.addr] = "listening"
        BY <2>1, <3>1, BytesType DEF Tell
      <3>4. inTask' \in BOOLEAN /\ clkLow' \in BOOLEAN /\ dataLow' \in BOOLEAN
        BY <2>1 DEF IInv, TypeOK
      <3>5. RoleMatchesDevice'
        BY <3>1, <3>2, <3>3, NoDevice DEF RoleMatchesDevice, Roles
      <3>6. f \cap Roles # {}
        BY DEF Roles
      <3>. QED
        <4>. HIDE DEF f
        <4>. QED
          BY <3>1, <3>2, <3>3, <3>4, <3>5, <3>6, AfterATNIInv
    <2>2. CASE findDevice(s.addr) = NULL
      <3>1. s.closed = {}
        BY <2>2, OrderlySequences, NoDevice DEF findDevice
      <3>. QED
        BY <2>2, <3>1, NobodyIInv
    <2>. QED
      BY <2>1, <2>2
  <1>4. CASE handleTalk
    <2>. PICK s \in AtnSequences("TALK") :
           /\ IF findDevice(s.addr) # NULL
              THEN /\ cur' = s.addr
                   /\ link' = Tell(LinkAfterBytes(s), s.addr, "talking")
                   /\ \/ clkLow' = TRUE /\ dataLow' = FALSE
                      \/ dataLow' \in receiveIECByteATN(FALSE) /\ UNCHANGED clkLow
                   /\ UNCHANGED inTask
                   /\ AfterATN((FlagsAfterBytes(s) \ {"P_LISTENING"}) \cup {"P_TALKING"})
              ELSE /\ link' = LinkAfterBytes(s)
                   /\ UNCHANGED cur
                   /\ IdleLines(FlagsAfterBytes(s), receiveIECByteATN(FALSE))
                   /\ AfterATN(FlagsAfterBytes(s))
      BY <1>4 DEF handleTalk
    <2>1. CASE findDevice(s.addr) # NULL
      <3>. DEFINE f == (FlagsAfterBytes(s) \ {"P_LISTENING"}) \cup {"P_TALKING"}
      <3>1. s.addr \in Devices
        BY <2>1 DEF findDevice
      <3>2. f \subseteq Flags /\ "P_ATN" \notin f /\ AfterATN(f) /\ flags' = f
        BY <2>1, BytesType DEF Flags, AfterATN
      <3>3. /\ cur' = s.addr
            /\ link' \in [Devices -> {"idle", "listening", "talking"}]
            /\ link'[s.addr] = "talking"
        BY <2>1, <3>1, BytesType DEF Tell
      <3>4. inTask' \in BOOLEAN /\ clkLow' \in BOOLEAN /\ dataLow' \in BOOLEAN
        BY <2>1 DEF IInv, TypeOK, receiveIECByteATN
      <3>5. RoleMatchesDevice'
        BY <3>1, <3>2, <3>3, NoDevice DEF RoleMatchesDevice, Roles
      <3>6. f \cap Roles # {}
        BY DEF Roles
      <3>. QED
        <4>. HIDE DEF f
        <4>. QED
          BY <3>1, <3>2, <3>3, <3>4, <3>5, <3>6, AfterATNIInv
    <2>2. CASE findDevice(s.addr) = NULL
      <3>1. s.closed = {}
        BY <2>2, OrderlySequences, NoDevice DEF findDevice
      <3>. QED
        BY <2>2, <3>1, NobodyIInv
    <2>. QED
      BY <2>1, <2>2
  <1>5. CASE handleNotAddressed
    <2>. PICK f \in {flags \ {"P_ATN", "P_DONE"}, flags \ {"P_ATN", "P_DONE", "P_TALKING"}} :
           /\ clkLow' = FALSE /\ dataLow' = FALSE
           /\ inTask' = (inTask /\ f \cap Roles # {})
           /\ UNCHANGED <<cur, link>>
           /\ AfterATN(f)
      BY <1>5 DEF handleNotAddressed
    <2>1. f \subseteq Flags /\ "P_ATN" \notin f /\ flags' = f
      BY DEF IInv, TypeOK, AfterATN
    <2>2. RoleMatchesDevice'
      BY <2>1 DEF RoleMatchesDevice, Roles, IInv
    <2>3. inTask' \in BOOLEAN /\ clkLow' \in BOOLEAN /\ dataLow' \in BOOLEAN
      BY DEF IInv, TypeOK
    <2>4. cur' \in Devices \cup {NULL} /\ link' \in [Devices -> {"idle", "listening", "talking"}]
      BY DEF IInv, TypeOK
    <2>. QED
      BY <2>1, <2>2, <2>3, <2>4, AfterATNIInv
  <1>. QED
    BY <1>1, <1>2, <1>3, <1>4, <1>5 DEF handleATNSequence

\* The ends of the ATN section without an ATN sequence, and the callback that
\* follows one which left us listening.
LEMMA ListenIInv == IInv /\ (WaitATN \/ ATNReleased \/ ListenTask \/ ListenReady) => IInv'
  <1>. SUFFICES ASSUME IInv, WaitATN \/ ATNReleased \/ ListenTask \/ ListenReady PROVE IInv'
    OBVIOUS
  <1>. USE NoDevice DEF IInv, bus, pins, console
  <1>1. CASE WaitATN
    BY <1>1 DEF WaitATN, TypeOK, RoleMatchesDevice, NoNullDevice, PcRole, RegisterCopy,
       ResetClears, AtnHoldsData, DrivenForReason
  <1>2. CASE ATNReleased
    <2>1. TypeOK'
      BY <1>2 DEF ATNReleased, TypeOK
    <2>2. RoleMatchesDevice' /\ AtnHoldsData' /\ DrivenForReason'
      BY <1>2 DEF ATNReleased, RoleMatchesDevice, AtnHoldsData, DrivenForReason, Roles
    <2>3. NoNullDevice' /\ PcRole' /\ RegisterCopy' /\ ResetClears' /\ cpc' = "idle" /\ slept' = "never"
      BY <1>2 DEF ATNReleased, NoNullDevice, PcRole, RegisterCopy, ResetClears
    <2>. QED
      BY <2>1, <2>2, <2>3
  <1>3. CASE ListenTask
    <2>1. cur # NULL
      BY <1>3 DEF ListenTask, PcRole, RoleMatchesDevice
    <2>2. TypeOK'
      BY <1>3, <2>1 DEF ListenTask, TypeOK, Callbacks
    <2>. QED
      BY <1>3, <2>1, <2>2 DEF ListenTask, RoleMatchesDevice, NoNullDevice, PcRole,
         RegisterCopy, ResetClears, AtnHoldsData, DrivenForReason
  <1>4. CASE ListenReady
    <2>1. TypeOK'
      BY <1>4, ZenonT(60) DEF ListenReady, TypeOK, Flags
    <2>2. RoleMatchesDevice' /\ AtnHoldsData' /\ DrivenForReason'
      BY <1>4 DEF ListenReady, RoleMatchesDevice, AtnHoldsData, DrivenForReason, Roles, PcRole
    <2>3. NoNullDevice' /\ PcRole' /\ RegisterCopy' /\ ResetClears' /\ cpc' = "idle" /\ slept' = "never"
      BY <1>4 DEF ListenReady, NoNullDevice, PcRole, RegisterCopy, ResetClears
    <2>. QED
      BY <2>1, <2>2, <2>3
  <1>. QED
    BY <1>1, <1>2, <1>3, <1>4

\* One byte is received or transmitted, or the transfer fails.
LEMMA TransferIInv ==
    IInv /\ (StartReceive \/ Receive \/ StartTransmit \/ Transmit \/ AllowInterrupt) => IInv'
  <1>. SUFFICES ASSUME IInv, StartReceive \/ Receive \/ StartTransmit \/ Transmit \/ AllowInterrupt
                PROVE  IInv'
    OBVIOUS
  <1>. USE NoDevice DEF IInv, bus, pins, console
  <1>1. CASE StartReceive
    <2>1. TypeOK'
      BY <1>1, ZenonT(60) DEF StartReceive, StartTransfer, TypeOK, Callbacks
    <2>. QED
      BY <1>1, <2>1 DEF StartReceive, StartTransfer, RoleMatchesDevice, NoNullDevice, PcRole,
         RegisterCopy, ResetClears, AtnHoldsData, DrivenForReason
  <1>2. CASE StartTransmit
    <2>1. TypeOK'
      BY <1>2, ZenonT(60) DEF StartTransmit, StartTransfer, TypeOK, Callbacks
    <2>. QED
      BY <1>2, <2>1 DEF StartTransmit, StartTransfer, RoleMatchesDevice, NoNullDevice, PcRole,
         RegisterCopy, ResetClears, AtnHoldsData, DrivenForReason
  <1>3. CASE Receive
    <2>1. cur # NULL /\ "P_LISTENING" \in flags
      BY <1>3 DEF Receive, PcRole, RoleMatchesDevice
    <2>2. /\ \/ UNCHANGED <<flags, clkLow, dataLow>>
             \/ /\ "P_ATN" \notin flags /\ flags' \in {flags, flags \cup {"P_DONE"}}
                /\ dataLow' \in BOOLEAN /\ UNCHANGED clkLow
          /\ pc' = "xmit" /\ inTask' = TRUE
          /\ UNCHANGED <<atn, rst, irq, attached, enabled, cpc, slept, cur, reg, link, race>>
      BY <1>3, <2>1 DEF Receive, receiveIECByte, receiveJiffyByte
    <2>3. TypeOK'
      BY <2>2, ZenonT(60) DEF TypeOK, Flags
    <2>4. RoleMatchesDevice' /\ AtnHoldsData' /\ DrivenForReason'
      BY <2>1, <2>2 DEF RoleMatchesDevice, AtnHoldsData, DrivenForReason, Roles
    <2>5. NoNullDevice' /\ PcRole' /\ RegisterCopy' /\ ResetClears' /\ cpc' = "idle" /\ slept' = "never"
      BY <2>2 DEF NoNullDevice, PcRole, RegisterCopy, ResetClears
    <2>. QED
      BY <2>3, <2>4, <2>5
  <1>4. CASE Transmit
    <2>1. cur # NULL /\ "P_TALKING" \in flags
      BY <1>4 DEF Transmit, PcRole, RoleMatchesDevice
    <2>2. /\ flags' \in {flags, flags \cup {"P_DONE"}}
          /\ \/ UNCHANGED <<clkLow, dataLow>>
             \/ "P_ATN" \notin flags /\ dataLow' \in BOOLEAN /\ clkLow' \in BOOLEAN
          /\ pc' = "leave" /\ inTask' = TRUE
          /\ UNCHANGED <<atn, rst, irq, attached, enabled, cpc, slept, cur, reg, link, race>>
      BY <1>4, <2>1 DEF Transmit, transmitIECByte, transmitJiffyByte, transmitJiffyBlock, pins, TypeOK
    <2>3. TypeOK'
      BY <2>2, ZenonT(60) DEF TypeOK, Flags
    <2>4. RoleMatchesDevice' /\ AtnHoldsData' /\ DrivenForReason'
      BY <2>1, <2>2 DEF RoleMatchesDevice, AtnHoldsData, DrivenForReason, Roles
    <2>5. NoNullDevice' /\ PcRole' /\ RegisterCopy' /\ ResetClears' /\ cpc' = "idle" /\ slept' = "never"
      BY <2>2 DEF NoNullDevice, PcRole, RegisterCopy, ResetClears
    <2>. QED
      BY <2>3, <2>4, <2>5
  <1>5. CASE AllowInterrupt
    <2>1. TypeOK'
      BY <1>5 DEF AllowInterrupt, TypeOK
    <2>. QED
      BY <1>5, <2>1 DEF AllowInterrupt, RoleMatchesDevice, NoNullDevice, PcRole, RegisterCopy,
         ResetClears, AtnHoldsData, DrivenForReason
  <1>. QED
    BY <1>1, <1>2, <1>3, <1>4, <1>5

\* The lines the master moves are not ours.
LEMMA MasterIInv == IInv /\ (MasterATN \/ MasterRESET \/ UNCHANGED vars) => IInv'
  <1>. SUFFICES ASSUME IInv, MasterATN \/ MasterRESET \/ UNCHANGED vars PROVE IInv'
    OBVIOUS
  <1>. USE DEF MasterATN, MasterRESET, vars, IInv, bus, pins, console
  <1>1. atn' \in BOOLEAN /\ rst' \in BOOLEAN /\ irq' \in BOOLEAN
    BY DEF TypeOK
  <1>2. UNCHANGED <<attached, flags, inTask, enabled, cur, clkLow, dataLow, pc, reg, cpc, slept, link, race>>
    OBVIOUS
  <1>3. TypeOK'
    BY <1>1, <1>2 DEF TypeOK
  <1>. QED
    BY <1>2, <1>3 DEF RoleMatchesDevice, NoNullDevice, PcRole, RegisterCopy, ResetClears,
       AtnHoldsData, DrivenForReason

\* Without console commands end() and begin() are never entered.
LEMMA NoCommands == Orderly /\ IInv => ~iecCommand
  BY DEF Orderly, IInv, iecCommand, endDisable, endDetach, endForget, endClear,
     endRelease, beginRelease, beginClear, beginForget, beginAttach, beginEnable

LEMMA NextIInv == Orderly /\ IInv /\ [Next]_vars => IInv'
  BY InterruptIInv, ResetIInv, PollIInv, HandleIInv, ListenIInv, TransferIInv, MasterIInv,
     NoCommands DEF Next, task, ResetSteps

\* Every reachable state satisfies the inductive invariant.
THEOREM Invariance == ASSUME Orderly PROVE Spec => []IInv
  <1>1. IInv /\ [Next]_vars => IInv'
    BY NextIInv
  <1>. QED
    BY InitIInv, <1>1, PTL DEF Spec

\* Type correctness of the bus handler (IECBusHandler.h: m_flags, m_inTask,
\* m_currentDevice) for any set of devices and addresses.
THEOREM TypeCorrect == ASSUME Orderly PROVE Spec => []TypeOK
  <1>1. IInv => TypeOK
    BY DEF IInv
  <1>. QED
    BY Invariance, <1>1, PTL

\* The flags, m_currentDevice and the calls the devices have seen agree in every
\* state, through every cut the interrupt can make into task().
THEOREM RoleAgreement == ASSUME Orderly PROVE Spec => []RoleMatchesDevice
  <1>1. IInv => RoleMatchesDevice
    BY DEF IInv
  <1>. QED
    BY Invariance, <1>1, PTL

\* For a master that follows a CLOSE byte by UNLISTEN or a secondary address only
\* (Orderly; with UNTALK or a second primary address it is false) task() never
\* dereferences a null m_currentDevice (IECBusHandler.cpp:4351, 4407, 4472),
\* although it tests the flag or the pointer before a callback during which the
\* interrupt runs.
THEOREM NullSafety == ASSUME Orderly PROVE Spec => []NoNullDevice
  <1>1. IInv => NoNullDevice
    BY DEF IInv
  <1>. QED
    BY Invariance, <1>1, PTL

\* The answer to ATN is not withdrawn before the ATN sequence has been handled.
THEOREM AnswerHeld == ASSUME Orderly PROVE Spec => []AtnHoldsData
  <1>1. IInv => AtnHoldsData
    BY DEF IInv
  <1>. QED
    BY Invariance, <1>1, PTL

\* An idle bus is not driven, but for the overwritten P_ATN of StoreFlags.
THEOREM IdleReleased == ASSUME Orderly PROVE Spec => []IdleBusReleased
  <1>1. IInv => IdleBusReleased
    BY DEF IInv, DrivenForReason, IdleBusReleased
  <1>. QED
    BY Invariance, <1>1, PTL

-----------------------------------------------------------------------------
(***************************************************************************)
(* end() and begin(), for any console commands and any bus master.         *)
(***************************************************************************)

\* While the bus is disabled the interrupt is detached, outside begin() and the
\* first statement of end(), if no RESET met the last end(); and task() is not
\* between enabling the bus and attaching the interrupt.
DisabledMeansDetached ==
    ~enabled /\ slept # "overlap" =>
        /\ cpc \notin {"endDetach", "beginEnable"} => ~attached
        /\ pc # "resetAttach"

\* A bus the console has never touched is enabled.
NeverMeansEnabled == slept = "never" => enabled /\ cpc = "idle"

SleepInv == DisabledMeansDetached /\ NeverMeansEnabled

LEMMA SleepStep == SleepInv /\ [Next]_vars => SleepInv'
  <1>. SUFFICES ASSUME SleepInv, [Next]_vars PROVE SleepInv'
    OBVIOUS
  <1>. USE DEF SleepInv, DisabledMeansDetached, NeverMeansEnabled, console
  <1>1. CASE ResetSteps
    BY <1>1 DEF ResetSteps, ResetEdge, ResetLines, ResetEnable, ResetAttach, ResetDevices
  <1>2. CASE iecCommand
    BY <1>2 DEF iecCommand, endDisable, endDetach, endForget, endClear, endRelease,
                beginRelease, beginClear, beginForget, beginAttach, beginEnable
  <1>3. CASE UNCHANGED console /\ pc' \in {pc, "crash"} \cup {"top", "storeReset", "check", "poll", "atn",
               "listenTask", "recv", "xmit", "leave", "missed"} \cup Callbacks
    BY <1>3 DEF Callbacks
  <1>4. handleATNSequence => UNCHANGED console /\ pc' \in {"listenTask", "recv"}
    BY DEF handleATNSequence, handleUnlisten, handleUntalk, handleListen, handleTalk,
           handleNotAddressed, EndRole, AfterATN
  <1>5. LoadFlags \/ StoreFlags \/ ResetHeld \/ CheckEnabled \/ PollATN \/ WaitATN
          \/ ATNReleased \/ ListenTask \/ ListenReady \/ StartReceive \/ StartTransmit
          \/ Receive \/ Transmit \/ AllowInterrupt \/ LeaveTask
        => UNCHANGED console /\ pc' \in {"crash", "top", "storeReset", "check", "poll", "atn",
               "listenTask", "recv", "xmit", "leave", "missed"} \cup Callbacks
    BY DEF LoadFlags, StoreFlags, ResetHeld, CheckEnabled, PollATN, WaitATN,
           ATNReleased, ListenTask, ListenReady, Crash, StartReceive, StartTransmit,
           StartTransfer, Receive, Transmit, AllowInterrupt, LeaveTask, Callbacks
  <1>6. task => ResetSteps \/ (UNCHANGED console /\ pc' \in {pc, "crash"} \cup {"top", "storeReset", "check", "poll", "atn",
               "listenTask", "recv", "xmit", "leave", "missed"} \cup Callbacks)
    BY <1>4, <1>5 DEF task, ResetSteps
  <1>7. atnInterruptFcn \/ MasterATN \/ MasterRESET \/ UNCHANGED vars
        => UNCHANGED console /\ pc' = pc
    BY DEF atnInterruptFcn, MasterATN, MasterRESET, vars
  <1>. QED
    BY <1>1, <1>2, <1>3, <1>6, <1>7 DEF Next

\* Once end() has returned, a task() call that starts drives no line, handles no
\* ATN and reaches no device until begin() or RESET enables the bus again
\* (IECBusHandler.cpp:4323), and the interrupt handler does nothing either, with
\* the console on the other core at any point of its own commands; but for an
\* end() that overlapped the RESET branch (4311-4312).
THEOREM SleepIsQuiet == Spec => AsleepStaysQuiet
  <1>. DEFINE quiet == ~enabled /\ cpc = "idle" /\ slept # "overlap"
                         /\ pc \in {"top", "storeReset", "check"}
              result == /\ UNCHANGED <<dataLow, clkLow>> \/ cpc' # "idle"
                        /\ pc' \in {"top", "storeReset", "check"} \cup ResetBranch
  <1>1. Init => SleepInv
    BY DEF Init, SleepInv, DisabledMeansDetached, NeverMeansEnabled
  <1>2. ASSUME SleepInv, [Next]_vars, quiet PROVE result
    <2>. USE <1>2 DEF pins, SleepInv, DisabledMeansDetached
    <2>1. CASE LoadFlags \/ StoreFlags \/ ResetEdge \/ ResetHeld \/ CheckEnabled
      BY <2>1 DEF LoadFlags, StoreFlags, ResetEdge, ResetHeld, CheckEnabled
    <2>2. CASE iecCommand
      BY <2>2 DEF iecCommand, endDisable, endDetach, endForget, endClear, endRelease,
                  beginRelease, beginClear, beginForget, beginAttach, beginEnable
    <2>3. CASE MasterATN \/ MasterRESET
      BY <2>3 DEF MasterATN, MasterRESET
    <2>4. CASE UNCHANGED vars
      BY <2>4 DEF vars
    <2>5. ~handleATNSequence
      BY DEF handleATNSequence, handleUnlisten, handleUntalk, handleListen, handleTalk,
             handleNotAddressed, EndRole, UnderATN
    <2>6. task => LoadFlags \/ StoreFlags \/ ResetEdge \/ ResetHeld \/ CheckEnabled
      BY <2>5 DEF task, ResetLines, ResetEnable, ResetAttach, ResetDevices, PollATN, WaitATN,
             ATNReleased, ListenTask, ListenReady, StartReceive, StartTransmit, StartTransfer,
             Receive, Transmit, AllowInterrupt, LeaveTask
    <2>. QED
      BY <2>1, <2>2, <2>3, <2>4, <2>6 DEF Next, atnInterruptFcn
  <1>3. SleepInv /\ [Next]_vars => [quiet => result]_vars
    BY <1>2
  <1>. QED
    BY <1>1, <1>3, SleepStep, PTL DEF Spec, AsleepStaysQuiet
==============================================================================
