---------------------------- MODULE IECBusHandler ----------------------------
(***************************************************************************)
(* The Commodore serial bus handler (lib/bus/iec/IECBusHandler.cpp): the   *)
(* bus task calls task() in a loop, an interrupt answers falling edges of  *)
(* ATN, and the console may call end() and begin() from the other core.    *)
(*                                                                         *)
(* The processes are: the bus task, one step per stretch of task() that    *)
(* the interrupt can cut (pc); the interrupt handler; the console command, *)
(* one step per assignment (cpc); and the bus master, which moves ATN and  *)
(* RESET as it likes, glitches included.  Device callbacks block for as    *)
(* long as they want: a callback is the stay at one value of pc.           *)
(*                                                                         *)
(* The bytes on the wire, the 100us/200us timing and the fast-load         *)
(* protocols are abstracted: a byte is transferred or fails, an ATN        *)
(* sequence has one of the outcomes its byte loop can reach.               *)
(***************************************************************************)
EXTENDS Naturals, FiniteSets

CONSTANTS Devices,          \* device numbers of the attached, active devices
          Addresses,        \* device numbers the bus master addresses
          NULL,             \* no device
          AfterClose,       \* what the master may send in an ATN sequence after
                            \* a CLOSE byte: commands, "readdress", "secondary"
          ConsoleCommands   \* subset of {"sleep", "wake"}

ASSUME DevicesAssumption == Devices \subseteq 0..30
ASSUME AddressesAssumption == Addresses \subseteq 0..30
ASSUME NULLAssumption == NULL \notin 0..30

VARIABLES atn,        \* the ATN line is high (released)
          rst,        \* the RESET line is high (released)
          irq,        \* a falling edge of ATN waits for the interrupt handler
          attached,   \* the interrupt is attached (s_bushandler # NULL)
          flags,      \* m_flags
          inTask,     \* m_inTask: the interrupt handler must not act
          enabled,    \* m_enabled
          cur,        \* m_currentDevice
          clkLow,     \* this handler pulls CLK low
          dataLow,    \* this handler pulls DATA low
          pc,         \* where the bus task is in task()
          reg,        \* the value of m_flags loaded by m_flags |= P_RESET
          cpc,        \* where the console is in end() or begin()
          link,       \* history: the role the last callback gave each device
          race,       \* history: the interrupt hit the RESET section of task()
          slept       \* history: whether the console has touched the bus, and
                      \* whether its last end() met a RESET in progress

bus == <<atn, rst, irq>>
pins == <<clkLow, dataLow>>
console == <<enabled, attached, cpc, slept>>
vars == <<bus, attached, flags, inTask, enabled, cur, pins, pc, reg, cpc, link, race, slept>>

Flags == {"P_ATN", "P_LISTENING", "P_TALKING", "P_DONE", "P_RESET"}
Roles == {"P_LISTENING", "P_TALKING"}

\* task() is inside a device callback, with m_inTask cleared.
Callbacks == {"listenReady", "canWrite", "canRead"}

\* task() is inside its RESET branch; the console is inside end().
ResetBranch == {"resetLines", "resetEnable", "resetAttach", "resetDevices"}
InEnd == {"endDetach", "endForget", "endClear", "endRelease"}

Init ==
    /\ atn = TRUE /\ rst = TRUE /\ irq = FALSE
    /\ attached = TRUE /\ enabled = TRUE      \* begin() has run: iec.cpp setup
    /\ flags = {} /\ reg = {}
    /\ inTask = FALSE
    /\ cur = NULL
    /\ clkLow = FALSE /\ dataLow = FALSE
    /\ pc = "top" /\ cpc = "idle"
    /\ link = [d \in Devices |-> "idle"]
    /\ race = "none" /\ slept = "never"

\* Mutation: the lookup answers for device numbers nobody has.
findAnyDevice(addr) == addr

findDevice(addr) == IF addr \in Devices THEN addr ELSE NULL

-----------------------------------------------------------------------------
(***************************************************************************)
(* atnRequest() and the interrupt handler that calls it.                   *)
(***************************************************************************)

\* Mutation: the early return kept for Hypra-Load has lost its protocol test.
IgnoreATNWhileBusy ==
    IF atn \/ cur # NULL
    THEN UNCHANGED <<flags, pins, race>>
    ELSE /\ flags' = (flags \cup {"P_ATN"}) \ {"P_DONE"}
         /\ clkLow' = FALSE
         /\ dataLow' = TRUE
         /\ race' = "none"

atnRequest ==
    IF atn
    THEN UNCHANGED <<flags, pins, race>>      \* stray interrupt request
    ELSE /\ flags' = (flags \cup {"P_ATN"}) \ {"P_DONE"}
         /\ clkLow' = FALSE
         /\ dataLow' = TRUE                   \* "I am here"
         /\ race' = "none"

\* An edge that arrives while m_inTask is set is dropped, not postponed.
atnInterruptFcn ==
    /\ irq /\ attached
    /\ irq' = FALSE
    /\ IF ~inTask /\ "P_ATN" \notin flags
       THEN atnRequest
       ELSE UNCHANGED <<flags, pins, race>>
    /\ UNCHANGED <<atn, rst, console, inTask, cur, pc, reg, link>>

-----------------------------------------------------------------------------
(***************************************************************************)
(* task(): the RESET section.  m_inTask is still clear.                    *)
(***************************************************************************)

\* m_flags |= P_RESET is a load and a store, which the interrupt can separate.
LoadFlags ==
    /\ pc = "top" /\ rst
    /\ reg' = flags
    /\ pc' = "storeReset"
    /\ UNCHANGED <<bus, console, flags, inTask, cur, pins, link, race>>

StoreFlags ==
    /\ pc = "storeReset"
    /\ flags' = reg \cup {"P_RESET"}
    /\ race' = IF "P_ATN" \in flags \ reg THEN "lostUpdate" ELSE race
    /\ reg' = {}
    /\ pc' = "check"
    /\ UNCHANGED <<bus, console, inTask, cur, pins, link>>

ResetEdge ==
    /\ pc = "top" /\ ~rst /\ "P_RESET" \in flags
    /\ cur' = NULL
    /\ flags' = {}
    /\ slept' = IF cpc \in InEnd THEN "overlap" ELSE slept
    /\ pc' = "resetLines"
    /\ UNCHANGED <<bus, enabled, attached, cpc, inTask, pins, reg, link, race>>

\* The lines are released, then m_enabled is tested: a sleeping bus comes back.
ResetLines ==
    /\ pc = "resetLines"
    /\ clkLow' = FALSE /\ dataLow' = FALSE
    /\ race' = IF "P_ATN" \in flags THEN "resetRelease" ELSE "none"
    /\ pc' = IF enabled THEN "resetDevices" ELSE "resetEnable"
    /\ UNCHANGED <<bus, console, flags, inTask, cur, reg, link>>

ResetEnable ==
    /\ pc = "resetEnable"
    /\ enabled' = TRUE
    /\ pc' = "resetAttach"
    /\ UNCHANGED <<bus, attached, cpc, slept, flags, inTask, cur, pins, reg, link, race>>

\* attachATNInterrupt() does nothing when the interrupt is attached already.
ResetAttach ==
    /\ pc = "resetAttach"
    /\ attached' = TRUE
    /\ pc' = "resetDevices"
    /\ UNCHANGED <<bus, enabled, cpc, slept, flags, inTask, cur, pins, reg, link, race>>

ResetDevices ==
    /\ pc = "resetDevices"
    /\ link' = [d \in Devices |-> "idle"]
    /\ pc' = "check"
    /\ UNCHANGED <<bus, console, flags, inTask, cur, pins, reg, race>>

ResetHeld ==
    /\ pc = "top" /\ ~rst /\ "P_RESET" \notin flags
    /\ pc' = "check"
    /\ UNCHANGED <<bus, console, flags, inTask, cur, pins, reg, link, race>>

\* Mutation: end() disables the interrupt only.
CheckNothing ==
    /\ pc = "check"
    /\ inTask' = TRUE
    /\ pc' = "poll"
    /\ UNCHANGED <<bus, console, flags, cur, pins, reg, link, race>>

CheckEnabled ==
    /\ pc = "check"
    /\ inTask' = (inTask \/ enabled)
    /\ pc' = IF enabled THEN "poll" ELSE "top"
    /\ UNCHANGED <<bus, console, flags, cur, pins, reg, link, race>>

-----------------------------------------------------------------------------
(***************************************************************************)
(* task(): the ATN section.                                                *)
(***************************************************************************)

PollATN ==
    /\ pc = "poll"
    /\ IF "P_ATN" \notin flags THEN atnRequest ELSE UNCHANGED <<flags, pins, race>>
    /\ pc' = "atn"
    /\ UNCHANGED <<bus, console, inTask, cur, reg, link>>

\* The results of the byte loop of handleATNSequence for an ATN sequence that
\* starts with LISTEN or TALK of device d: the command and address left in
\* m_primary, whether m_secondary is a CLOSE, and the devices whose listen()
\* the CLOSE bytes called on the way.  A second LISTEN or TALK is accepted
\* when its address agrees with the first one in the low four bits.
SameLowBits(d) == {a \in Addresses : a % 16 = d % 16}

Addressed(d) ==
    {s \in [cmd    : {"LISTEN", "TALK", "UNLISTEN", "UNTALK"},
            addr   : SameLowBits(d),
            sec    : {"CLOSE", "OTHER"},
            closed : SUBSET (SameLowBits(d) \cap Devices)] :
        /\ s.sec = "CLOSE" => s.addr \in s.closed /\ s.cmd \in {"LISTEN", "TALK"}
        /\ s.closed # {} =>
              \/ s.closed = {d} /\ s.addr = d
                 /\ \/ s.sec = "CLOSE"
                    \/ s.cmd \in {"LISTEN", "TALK"} /\ "secondary" \in AfterClose
                    \/ s.cmd \in {"UNLISTEN", "UNTALK"} /\ s.cmd \in AfterClose
              \/ "readdress" \in AfterClose}

\* Flags and roles once the loop is over: CLOSE bytes made their device listen
\* at once, P_ATN and P_DONE are cleared.
FlagsAfterBytes(s) ==
    LET f == flags \ {"P_ATN", "P_DONE"} IN
    IF s.closed = {} THEN f ELSE (f \ {"P_TALKING"}) \cup {"P_LISTENING"}

LinkAfterBytes(s) ==
    [d \in Devices |-> IF d \in s.closed THEN "listening" ELSE link[d]]

\* Whether DATA may be low after the last receiveIECByteATN: it acknowledges a
\* byte; an attempt that the end of ATN cut short leaves DATA either way.
receiveIECByteATN(received) == IF received THEN {TRUE} ELSE BOOLEAN

\* What is left when the ATN sequence leaves the handler with flags f: without
\* a role the lines are released and the interrupt may act again.
IdleLines(f, data) ==
    IF f \cap Roles = {}
    THEN clkLow' = FALSE /\ dataLow' = FALSE /\ inTask' = FALSE
    ELSE dataLow' \in data /\ UNCHANGED <<clkLow, inTask>>

AfterATN(f) ==
    /\ flags' = f
    /\ atn' = TRUE                              \* waitPinATN(HIGH)
    /\ race' = "none"
    /\ pc' = IF "P_LISTENING" \in f THEN "listenTask" ELSE "recv"
    /\ UNCHANGED <<rst, irq, console, reg>>

\* The callback that gives device d (if any) its role.
Tell(l, d, role) == [x \in Devices |-> IF x = d THEN role ELSE l[x]]

UnderATN == pc = "atn" /\ "P_ATN" \in flags /\ ~atn

\* Mutation: ending one role forgets the device of the other one.
EndAnyRole(role, s) ==
    LET f == FlagsAfterBytes(s) IN
    /\ UnderATN
    /\ link' = Tell(LinkAfterBytes(s), cur, "idle")
    /\ cur' = NULL
    /\ IdleLines(f \ {role}, receiveIECByteATN(TRUE))
    /\ AfterATN(f \ {role})

\* The handler ends a role: the device that had it is told, cur forgotten.
EndRole(role, s) ==
    LET f == FlagsAfterBytes(s)
        l == LinkAfterBytes(s) IN
    /\ UnderATN
    /\ IF role \in f
       THEN /\ link' = Tell(l, cur, "idle")
            /\ cur' = NULL
       ELSE link' = l /\ UNCHANGED cur
    /\ IdleLines(f \ {role}, receiveIECByteATN(TRUE))
    /\ AfterATN(f \ {role})

NoBytes == [cmd |-> "UNLISTEN", addr |-> 0, sec |-> "OTHER", closed |-> {}]

AddressedUs == UNION {Addressed(d) : d \in Devices \cap Addresses}

AtnSequences(cmd) == {s \in AddressedUs : s.cmd = cmd}

handleUnlisten == \E s \in AtnSequences("UNLISTEN") \cup {NoBytes} : EndRole("P_LISTENING", s)

handleUntalk == \E s \in AtnSequences("UNTALK") \cup {NoBytes} : EndRole("P_TALKING", s)

\* LISTEN: for CLOSE the listen() call was already made in the byte loop.
handleListen ==
    \E s \in AtnSequences("LISTEN") :
        LET f == FlagsAfterBytes(s) IN
        /\ UnderATN
        /\ IF findDevice(s.addr) # NULL
           THEN /\ cur' = s.addr
                /\ link' = Tell(LinkAfterBytes(s), s.addr, "listening")
                /\ dataLow' = TRUE
                /\ UNCHANGED <<clkLow, inTask>>
                /\ AfterATN((f \ {"P_TALKING"}) \cup {"P_LISTENING"})
           ELSE /\ link' = LinkAfterBytes(s)
                /\ UNCHANGED cur
                /\ IdleLines(f, receiveIECByteATN(FALSE))
                /\ AfterATN(f)

\* Mutation: TALK does not end the listener's role.
TalkKeepsListening ==
    \E s \in AtnSequences("TALK") :
        /\ UnderATN
        /\ findDevice(s.addr) # NULL
        /\ cur' = s.addr
        /\ link' = Tell(LinkAfterBytes(s), s.addr, "talking")
        /\ clkLow' = TRUE /\ dataLow' = FALSE
        /\ UNCHANGED inTask
        /\ AfterATN(FlagsAfterBytes(s) \cup {"P_TALKING"})

\* TALK: the lines turn around only if the master releases CLK in time.
handleTalk ==
    \E s \in AtnSequences("TALK") :
        LET f == FlagsAfterBytes(s) IN
        /\ UnderATN
        /\ IF findDevice(s.addr) # NULL
           THEN /\ cur' = s.addr
                /\ link' = Tell(LinkAfterBytes(s), s.addr, "talking")
                /\ \/ clkLow' = TRUE /\ dataLow' = FALSE
                   \/ dataLow' \in receiveIECByteATN(FALSE) /\ UNCHANGED clkLow
                /\ UNCHANGED inTask
                /\ AfterATN((f \ {"P_LISTENING"}) \cup {"P_TALKING"})
           ELSE /\ link' = LinkAfterBytes(s)
                /\ UNCHANGED cur
                /\ IdleLines(f, receiveIECByteATN(FALSE))
                /\ AfterATN(f)

\* Another device was addressed, or the primary address was not received.
\* A TALK for someone else stops us talking, without a callback.
handleNotAddressed ==
    \E f \in {flags \ {"P_ATN", "P_DONE"}, flags \ {"P_ATN", "P_DONE", "P_TALKING"}} :
        /\ UnderATN
        /\ clkLow' = FALSE /\ dataLow' = FALSE
        /\ inTask' = (inTask /\ f \cap Roles # {})
        /\ UNCHANGED <<cur, link>>
        /\ AfterATN(f)

\* The 100us after the edge are not over, or the master still holds CLK.
WaitATN ==
    /\ pc = "atn" /\ ("P_ATN" \in flags => ~atn)
    /\ pc' = "recv"
    /\ UNCHANGED <<bus, console, flags, inTask, cur, pins, reg, link, race>>

\* Mutation: before the idle state was restored here.
ReleaseATNOnly ==
    /\ pc = "atn" /\ "P_ATN" \in flags /\ atn
    /\ flags' = flags \ {"P_ATN"}
    /\ pc' = "recv"
    /\ UNCHANGED <<bus, console, inTask, cur, pins, reg, link, race>>

\* The master released ATN before any address byte was received.
ATNReleased ==
    /\ pc = "atn" /\ "P_ATN" \in flags /\ atn
    /\ flags' = flags \ {"P_ATN"}
    /\ IF flags \cap Roles = {}
       THEN clkLow' = FALSE /\ dataLow' = FALSE
       ELSE UNCHANGED pins
    /\ race' = "none"
    /\ pc' = "recv"
    /\ UNCHANGED <<bus, console, inTask, cur, reg, link>>

\* Dereferencing a null m_currentDevice panics the firmware.
Crash == pc' = "crash" /\ UNCHANGED <<bus, console, flags, inTask, cur, pins, reg, link, race>>

\* After an ATN sequence that leaves us listening: the device's task() and
\* canWrite() run with the interrupt allowed.
ListenTask ==
    /\ pc = "listenTask"
    /\ \/ cur = NULL /\ Crash
       \/ /\ cur # NULL
          /\ inTask' = FALSE
          /\ pc' = "listenReady"
          /\ UNCHANGED <<bus, console, flags, cur, pins, reg, link, race>>

\* Mutation: the device's refusal is signalled without looking at P_ATN again.
RefuseUnderATN ==
    /\ pc = "listenReady"
    /\ inTask' = TRUE
    /\ pc' = "recv"
    /\ \/ UNCHANGED <<flags, pins>>
       \/ /\ dataLow' = FALSE
          /\ flags' = flags \cup {"P_DONE"}
          /\ UNCHANGED clkLow
    /\ UNCHANGED <<bus, console, cur, reg, link, race>>

ListenReady ==
    /\ pc = "listenReady"
    /\ inTask' = TRUE
    /\ pc' = "recv"
    /\ \/ UNCHANGED <<flags, pins>>
       \/ /\ "P_ATN" \notin flags
          /\ dataLow' = FALSE
          /\ flags' = flags \cup {"P_DONE"}
          /\ UNCHANGED clkLow
    /\ UNCHANGED <<bus, console, cur, reg, link, race>>

-----------------------------------------------------------------------------
(***************************************************************************)
(* task(): receiving and transmitting one byte.                            *)
(***************************************************************************)

\* A transfer section is entered in its role, outside ATN, until P_DONE.
StartTransfer(section, role, callback, otherwise) ==
    /\ pc = section
    /\ IF flags \cap {"P_ATN", role, "P_DONE"} = {role} /\ cur # NULL
       THEN inTask' = FALSE /\ pc' = callback
       ELSE pc' = otherwise /\ UNCHANGED inTask
    /\ UNCHANGED <<bus, console, flags, cur, pins, reg, link, race>>

StartReceive == StartTransfer("recv", "P_LISTENING", "canWrite", "xmit")

StartTransmit == StartTransfer("xmit", "P_TALKING", "canRead", "leave")

\* What receiveIECByte leaves: DATA low after a byte the device took; after a
\* failure DATA is where the failure found it and the transaction is done.
receiveIECByte ==
    \/ dataLow' = TRUE /\ UNCHANGED <<flags, clkLow>>
    \/ /\ dataLow' \in BOOLEAN
       /\ flags' = flags \cup {"P_DONE"}
       /\ UNCHANGED clkLow

\* JiffyDOS acknowledges a byte in the same way and releases DATA to refuse it.
receiveJiffyByte ==
    \/ dataLow' = TRUE /\ UNCHANGED <<flags, clkLow>>
    \/ /\ dataLow' = FALSE
       /\ flags' = flags \cup {"P_DONE"}
       /\ UNCHANGED clkLow

\* canWrite() has returned: nothing to do (ATN fell meanwhile, the device asks
\* for more time, the sender is not ready) or one byte.
Receive ==
    /\ pc = "canWrite"
    /\ \/ cur = NULL /\ "P_ATN" \notin flags /\ Crash
       \/ /\ inTask' = TRUE
          /\ pc' = "xmit"
          /\ \/ UNCHANGED <<flags, pins>>
             \/ "P_ATN" \notin flags /\ cur # NULL /\ (receiveIECByte \/ receiveJiffyByte)
          /\ UNCHANGED <<bus, console, cur, reg, link, race>>

\* CLK low and DATA released ("busy") after a byte; after a failure (receiver
\* gone, nothing to send, ATN) the lines are wherever the failure found them.
transmitIECByte ==
    \/ clkLow' = TRUE /\ dataLow' = FALSE /\ UNCHANGED flags
    \/ /\ clkLow' \in BOOLEAN /\ dataLow' \in BOOLEAN
       /\ flags' = flags \cup {"P_DONE"}

\* A JiffyDOS byte leaves CLK low when another one follows and both lines
\* released after the last.  It fails when ATN falls before the receiver is
\* ready, when nobody acknowledges it, or when there was nothing to send.
transmitJiffyByte ==
    \/ clkLow' \in BOOLEAN /\ dataLow' = FALSE /\ UNCHANGED flags
    \/ /\ \/ clkLow' = FALSE /\ UNCHANGED dataLow
          \/ clkLow' \in BOOLEAN /\ dataLow' = FALSE
       /\ flags' = flags \cup {"P_DONE"}

\* A JiffyDOS block leaves CLK low.  It fails on ATN, before the first line is
\* touched, while DATA announces the block or between two bytes, and, with CLK
\* pulsed, when there is no block to send.
transmitJiffyBlock ==
    \/ clkLow' = TRUE /\ dataLow' = FALSE /\ UNCHANGED flags
    \/ /\ \/ UNCHANGED pins
          \/ clkLow' = FALSE /\ dataLow' \in BOOLEAN
          \/ clkLow' = TRUE /\ dataLow' = FALSE
       /\ flags' = flags \cup {"P_DONE"}

\* canRead(), or for a JiffyDOS block read(), has returned: nothing to do, a block
\* given up because ATN fell meanwhile (P_DONE comes after P_ATN then), or one
\* byte or block.
Transmit ==
    /\ pc = "canRead"
    /\ \/ cur = NULL /\ "P_ATN" \notin flags /\ Crash
       \/ /\ inTask' = TRUE
          /\ pc' = "leave"
          /\ \/ UNCHANGED <<flags, pins>>
             \/ "P_ATN" \in flags /\ flags' = flags \cup {"P_DONE"} /\ UNCHANGED pins
             \/ /\ "P_ATN" \notin flags /\ cur # NULL
                /\ transmitIECByte \/ transmitJiffyByte \/ transmitJiffyBlock
          /\ UNCHANGED <<bus, console, cur, reg, link, race>>

AllowInterrupt ==
    /\ pc = "leave"
    /\ inTask' = FALSE
    /\ pc' = "missed"
    /\ UNCHANGED <<bus, console, flags, cur, pins, reg, link, race>>

\* A missed edge is made up for, the task() of every device runs and task()
\* returns, to be called again.
LeaveTask ==
    /\ pc = "missed"
    /\ IF "P_ATN" \notin flags THEN atnRequest ELSE UNCHANGED <<flags, pins, race>>
    /\ pc' = "top"
    /\ UNCHANGED <<bus, console, inTask, cur, reg, link>>

-----------------------------------------------------------------------------
(***************************************************************************)
(* end() ("iec sleep") and begin() ("iec wake"), called by the console.    *)
(***************************************************************************)

endDisable ==
    /\ cpc = "idle" /\ "sleep" \in ConsoleCommands
    /\ enabled' = FALSE
    /\ cpc' = "endDetach"
    /\ slept' = IF pc \in ResetBranch THEN "overlap" ELSE "apart"
    /\ UNCHANGED <<bus, attached, flags, inTask, cur, pins, pc, reg, link, race>>

endDetach ==
    /\ cpc = "endDetach"
    /\ attached' = FALSE
    /\ irq' = FALSE
    /\ cpc' = "endForget"
    /\ UNCHANGED <<atn, rst, flags, inTask, enabled, cur, pins, pc, reg, link, race, slept>>

endForget ==
    /\ cpc = "endForget"
    /\ cur' = NULL
    /\ cpc' = "endClear"
    /\ UNCHANGED <<bus, attached, flags, inTask, enabled, pins, pc, reg, link, race, slept>>

\* m_flags = 0 is lost when task() is in the middle of one of its updates.
endClear ==
    /\ cpc = "endClear"
    /\ flags' \in {{}} \cup IF inTask THEN {flags} ELSE {}
    /\ cpc' = "endRelease"
    /\ UNCHANGED <<bus, attached, inTask, enabled, cur, pins, pc, reg, link, race, slept>>

endRelease ==
    /\ cpc = "endRelease"
    /\ clkLow' = FALSE /\ dataLow' = FALSE
    /\ cpc' = "idle"
    /\ UNCHANGED <<bus, attached, flags, inTask, enabled, cur, pc, reg, link, race, slept>>

beginRelease ==
    /\ cpc = "idle" /\ "wake" \in ConsoleCommands
    /\ clkLow' = FALSE /\ dataLow' = FALSE
    /\ cpc' = "beginClear"
    /\ slept' = IF slept = "never" THEN "apart" ELSE slept
    /\ UNCHANGED <<bus, attached, flags, inTask, enabled, cur, pc, reg, link, race>>

beginClear ==
    /\ cpc = "beginClear"
    /\ flags' \in {{}} \cup IF inTask THEN {flags} ELSE {}
    /\ cpc' = "beginForget"
    /\ UNCHANGED <<bus, attached, inTask, enabled, cur, pins, pc, reg, link, race, slept>>

beginForget ==
    /\ cpc = "beginForget"
    /\ cur' = NULL
    /\ cpc' = "beginAttach"
    /\ UNCHANGED <<bus, attached, flags, inTask, enabled, pins, pc, reg, link, race, slept>>

beginAttach ==
    /\ cpc = "beginAttach"
    /\ attached' = TRUE
    /\ cpc' = "beginEnable"
    /\ UNCHANGED <<bus, flags, inTask, enabled, cur, pins, pc, reg, link, race, slept>>

\* The begin() of every device has run before the bus is enabled.
beginEnable ==
    /\ cpc = "beginEnable"
    /\ link' = [d \in Devices |-> "idle"]
    /\ enabled' = TRUE
    /\ cpc' = "idle"
    /\ UNCHANGED <<bus, attached, flags, inTask, cur, pins, pc, reg, race, slept>>

-----------------------------------------------------------------------------
(***************************************************************************)
(* The bus master.                                                         *)
(***************************************************************************)

MasterATN ==
    /\ atn' = ~atn
    /\ irq' = (irq \/ (atn /\ attached))
    /\ UNCHANGED <<rst, console, flags, inTask, cur, pins, pc, reg, link, race>>

MasterRESET ==
    /\ rst' = ~rst
    /\ UNCHANGED <<atn, irq, console, flags, inTask, cur, pins, pc, reg, link, race>>

handleATNSequence ==
    handleUnlisten \/ handleUntalk \/ handleListen \/ handleTalk \/ handleNotAddressed

\* The bus task, which iec.cpp runs in an endless loop.
task ==
    \/ LoadFlags \/ StoreFlags \/ ResetHeld
    \/ ResetEdge \/ ResetLines \/ ResetEnable \/ ResetAttach \/ ResetDevices
    \/ CheckEnabled \/ PollATN
    \/ handleATNSequence \/ WaitATN \/ ATNReleased
    \/ ListenTask \/ ListenReady
    \/ StartReceive \/ Receive \/ StartTransmit \/ Transmit
    \/ AllowInterrupt \/ LeaveTask

iecCommand ==
    \/ endDisable \/ endDetach \/ endForget \/ endClear \/ endRelease
    \/ beginRelease \/ beginClear \/ beginForget \/ beginAttach \/ beginEnable

Next ==
    \/ task
    \/ atnInterruptFcn
    \/ iecCommand
    \/ MasterATN \/ MasterRESET

Spec == Init /\ [][Next]_vars

\* The bus task has a core to itself and its callbacks return.
FairSpec == Spec /\ WF_vars(task)

-----------------------------------------------------------------------------
(***************************************************************************)
(* Properties.                                                             *)
(***************************************************************************)

\* Types.  cur is checked against the attached devices: task() calls through
\* whatever findDevice() returned.
TypeOK ==
    /\ atn \in BOOLEAN /\ rst \in BOOLEAN /\ irq \in BOOLEAN
    /\ attached \in BOOLEAN /\ enabled \in BOOLEAN /\ inTask \in BOOLEAN
    /\ flags \subseteq Flags /\ reg \subseteq Flags
    /\ cur \in Devices \cup {NULL}
    /\ clkLow \in BOOLEAN /\ dataLow \in BOOLEAN
    /\ pc \in {"top", "storeReset", "check", "poll", "atn", "listenTask", "recv", "xmit",
               "leave", "missed", "crash"} \cup ResetBranch \cup Callbacks
    /\ cpc \in {"idle", "beginClear", "beginForget", "beginAttach", "beginEnable"} \cup InEnd
    /\ link \in [Devices -> {"idle", "listening", "talking"}]
    /\ race \in {"none", "lostUpdate", "resetRelease"}
    /\ slept \in {"never", "apart", "overlap"}

\* The bus handler's idea of the transaction is its device's: never both roles
\* at once, and while P_LISTENING (P_TALKING) is set the current device exists
\* and the last call it saw was listen() (talk()).  task() dereferences
\* m_currentDevice on the strength of the flag alone (IECBusHandler.cpp:4351).
\* This and the next three hold until the console first touches the bus: end()
\* and begin() change flags, device and lines under a running task().
RoleMatchesDevice ==
    slept = "never" =>
        /\ ~ (Roles \subseteq flags)
        /\ "P_LISTENING" \in flags => cur # NULL /\ link[cur] = "listening"
        /\ "P_TALKING" \in flags => cur # NULL /\ link[cur] = "talking"

\* task() dereferences no null device, for a master that follows a CLOSE byte by
\* UNLISTEN, a secondary address or nothing before it ends the ATN sequence.
\* With the other values of AfterClose it does (IECBusHandler.cpp:4351): LISTEN 8,
\* CLOSE, UNTALK leaves P_LISTENING set without a device, and so does LISTEN 8,
\* CLOSE, LISTEN 24 when no device has number 24.
NoNullDevice == slept = "never" => pc # "crash"

\* From the answer to a falling edge until the ATN sequence has been handled
\* nothing task() does withdraws the answer: CLK stays released and DATA low,
\* although the edge can come in the middle of any callback.  The exception is
\* an edge between the two halves of the RESET branch.
AtnHoldsData ==
    slept = "never" /\ "P_ATN" \in flags /\ race # "resetRelease" => dataLow /\ ~clkLow

\* With no ATN and no role nothing is driven when task() returns, unless the
\* store of m_flags |= P_RESET overwrote the interrupt handler's P_ATN.
IdleBusReleased ==
    slept = "never" /\ race # "lostUpdate" =>
        (pc = "top" /\ atn /\ flags \cap (Roles \cup {"P_ATN"}) = {} => ~dataLow /\ ~clkLow)

\* A task() call that starts after end() has returned moves no line and reaches
\* no device, and neither does the interrupt handler, until RESET or begin()
\* enables the bus again.  The exception is an end() that met a RESET: between
\* m_enabled = true and attachATNInterrupt() in the RESET branch (4311-4312) end()
\* finds nothing to detach, and leaves a sleeping bus that answers ATN.
AsleepStaysQuiet ==
    [][~enabled /\ cpc = "idle" /\ slept # "overlap" /\ pc \in {"top", "storeReset", "check"}
         => /\ UNCHANGED <<dataLow, clkLow>> \/ cpc' # "idle"
            /\ pc' \in {"top", "storeReset", "check"} \cup ResetBranch]_vars

\* Every ATN the master holds is answered in the end, whichever part of task()
\* or callback the edge fell into and whether or not its interrupt was dropped,
\* on a bus the console has left alone.
AtnAnswered == (~atn) ~> (atn \/ "P_ATN" \in flags \/ slept # "never")
==============================================================================
