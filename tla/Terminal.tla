-------------------------------- MODULE Terminal --------------------------------
(***************************************************************************)
(* A terminal session: the page's component (web-terminal.tsx) opens a        *)
(* WebSocket, and the API joins it to an exec stream of Docker               *)
(* (modules/terminal).  The bridge is joined after several awaits, and        *)
(* either side may end before, during and after them.                        *)
(*                                                                         *)
(* Time passes in ticks of the idle timer; what is typed and printed has no   *)
(* content, and a change of the window's size is a message like any other.    *)
(***************************************************************************)
EXTENDS Naturals

CONSTANTS
    IdleTicks,    \* IDLE_TIMEOUT_MS
    MaxMessages   \* MAX_MESSAGES_PER_WINDOW

ASSUME TerminalAssumption == IdleTicks \in Nat \ {0} /\ MaxMessages \in Nat \ {0}

VARIABLES
    terminal,   \* the page's component: loading xterm, open or left
    socket,     \* the WebSocket
    bridge,     \* the handler and attachDockerExecSession: the step they stand at
    exec,       \* Docker's exec stream
    idle,       \* the idle timer: is it armed, and for how many ticks
    passedOn,   \* messages passed on in this window
    quiet,      \* ticks since something was typed or printed
    early       \* the socket was closed before the bridge was joined

terminalVars == <<terminal, socket, bridge, exec, idle, passedOn, quiet, early>>

Disarmed == [armed |-> FALSE, ticks |-> 0]
Armed == [armed |-> TRUE, ticks |-> 0]

TerminalInit ==
    /\ terminal = "loading" /\ socket = "none" /\ bridge = "none" /\ exec = "none"
    /\ idle = Disarmed /\ passedOn = 0 /\ quiet = 0 /\ early = FALSE

\* The variant of the 'close' listener that leaves the stream.
ClosesSocketOnly ==
    /\ socket' = IF socket = "open" THEN "closed" ELSE socket
    /\ IF socket = "open" /\ bridge = "joined"
       THEN idle' = Disarmed /\ UNCHANGED <<exec, early>>
       ELSE early' = (early \/ socket = "open") /\ UNCHANGED <<idle, exec>>

\* The socket closes: the bridge's listener stops the timer and destroys the stream, once
\* the bridge is joined.
ClosesSocket ==
    /\ socket' = IF socket = "open" THEN "closed" ELSE socket
    /\ IF socket = "open" /\ bridge = "joined"
       THEN idle' = Disarmed /\ exec' = "destroyed" /\ UNCHANGED early
       ELSE early' = (early \/ socket = "open") /\ UNCHANGED <<idle, exec>>

----------------------------------------------------------------------------
(* The page *)

\* xterm is loaded: the socket is opened, unless the page has been left meanwhile.
TerminalOpens ==
    /\ terminal = "loading"
    /\ terminal' = "open" /\ socket' = "open" /\ bridge' = "asked"
    /\ UNCHANGED <<exec, idle, passedOn, quiet, early>>

TerminalLeft ==
    /\ terminal # "left" /\ terminal' = "left"
    /\ ClosesSocket
    /\ UNCHANGED <<bridge, passedOn, quiet>>

ConnectionLost ==
    /\ socket = "open" /\ ClosesSocket
    /\ UNCHANGED <<terminal, bridge, passedOn, quiet>>

----------------------------------------------------------------------------
(* The bridge *)

\* The handler sends the user away: another origin, a shell that is not on the list, no
\* Docker, a host terminal that is switched off or whose agent does not run.
TerminalRefused ==
    /\ bridge = "asked" /\ bridge' = "refused"
    /\ ClosesSocket
    /\ UNCHANGED <<terminal, passedOn, quiet>>

\* attachDockerExecSession arms the timer and asks Docker for an exec.
BridgeBegins ==
    /\ bridge = "asked" /\ bridge' = "creating"
    /\ idle' = Armed /\ quiet' = 0
    /\ UNCHANGED <<terminal, socket, exec, passedOn, early>>

BridgeCreates ==
    /\ bridge = "creating" /\ bridge' = "starting"
    /\ UNCHANGED <<terminal, socket, exec, idle, passedOn, quiet, early>>

BridgeStarts ==
    /\ bridge = "starting" /\ bridge' = "resizing" /\ exec' = "open"
    /\ UNCHANGED <<terminal, socket, idle, passedOn, quiet, early>>

BridgeJoins ==
    /\ bridge = "resizing" /\ bridge' = "joined"
    /\ UNCHANGED <<terminal, socket, exec, idle, passedOn, quiet, early>>

\* Docker refuses a step: the timer is stopped and the socket closed, and a stream that has
\* been started is left.
BridgeFails ==
    /\ bridge \in {"creating", "starting", "resizing"} /\ bridge' = "failed"
    /\ idle' = Disarmed
    /\ socket' = IF socket = "open" THEN "closed" ELSE socket
    /\ UNCHANGED <<terminal, exec, passedOn, quiet, early>>

\* What is printed is heard from the moment the bridge is joined, also when nobody is there.
ExecPrints ==
    /\ bridge = "joined" /\ exec = "open"
    /\ idle' = Armed /\ quiet' = 0
    /\ UNCHANGED <<terminal, socket, bridge, exec, passedOn, early>>

\* The shell ends, or the stream breaks.
ExecEnds ==
    /\ bridge = "joined" /\ exec = "open"
    /\ IF socket = "open" THEN ClosesSocket
       ELSE exec' = "ended" /\ UNCHANGED <<socket, idle, early>>
    /\ UNCHANGED <<terminal, bridge, passedOn, quiet>>

\* What is typed is passed on, or refused beyond the rate (allowMessage), and keeps the
\* session awake in any case; before the bridge is joined nobody hears it.
TerminalTyped ==
    /\ socket = "open" /\ bridge = "joined"
    /\ idle' = Armed /\ quiet' = 0
    /\ passedOn' = IF passedOn < MaxMessages THEN passedOn + 1 ELSE passedOn
    /\ UNCHANGED <<terminal, socket, bridge, exec, early>>

WindowEnds ==
    /\ passedOn # 0 /\ passedOn' = 0
    /\ UNCHANGED <<terminal, socket, bridge, exec, idle, quiet, early>>

\* The idle timer closes the socket; it is not armed again by itself.
IdleFires ==
    /\ idle.armed /\ idle.ticks = IdleTicks
    /\ IF socket = "open" /\ bridge = "joined" THEN ClosesSocket
       ELSE /\ socket' = (IF socket = "open" THEN "closed" ELSE socket)
            /\ early' = (early \/ socket = "open") /\ idle' = Disarmed /\ UNCHANGED exec
    /\ UNCHANGED <<terminal, bridge, passedOn, quiet>>

IdleTick ==
    /\ idle.armed /\ idle.ticks < IdleTicks
    /\ idle' = [idle EXCEPT !.ticks = @ + 1]
    /\ quiet' = IF quiet < IdleTicks THEN quiet + 1 ELSE quiet
    /\ UNCHANGED <<terminal, socket, bridge, exec, passedOn, early>>

TerminalNext ==
    \/ TerminalOpens \/ TerminalLeft \/ ConnectionLost \/ TerminalRefused
    \/ BridgeBegins \/ BridgeCreates \/ BridgeStarts \/ BridgeJoins \/ BridgeFails
    \/ ExecPrints \/ ExecEnds \/ TerminalTyped \/ WindowEnds \/ IdleFires \/ IdleTick

TerminalSpec == TerminalInit /\ [][TerminalNext]_terminalVars

----------------------------------------------------------------------------
\* The session's state has its types (attach-exec.ts:58).
TerminalTypeOK ==
    /\ terminal \in {"loading", "open", "left"} /\ socket \in {"none", "open", "closed"}
    /\ bridge \in {"none", "asked", "refused", "creating", "starting", "resizing", "joined",
                   "failed"}
    /\ exec \in {"none", "open", "ended", "destroyed"}
    /\ idle \in [armed : BOOLEAN, ticks : 0 .. IdleTicks]
    /\ passedOn \in 0 .. MaxMessages /\ quiet \in 0 .. IdleTicks /\ early \in BOOLEAN

\* Nothing is left of a session that is over: no socket once the page is left, and neither
\* a stream nor a timer once the socket is closed; unless it was closed before the bridge
\* was joined, or Docker refused to resize a stream it had started.  A timer that has
\* begun waits for its full time without anything typed or printed (attachDockerExecSession,
\* attach-exec.ts:58, and the effect of web-terminal.tsx:39).
NothingLeft ==
    /\ terminal = "left" => socket # "open"
    /\ socket = "closed" /\ ~early => ~idle.armed /\ (exec = "open" => bridge = "failed")
    /\ idle.armed => idle.ticks = quiet
================================================================================
