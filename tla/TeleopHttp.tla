----------------------------- MODULE TeleopHttp -----------------------------
(***************************************************************************)
(* The earlier remote control of the robot: the page sends one HTTP        *)
(* request per command.  Requests travel on several connections, so that   *)
(* they may be handled out of order; the page sends a held direction only  *)
(* from its 100 ms interval; and listeners on the whole document clear     *)
(* that interval.                                                          *)
(*                                                                         *)
(* What it commands is Robot, which the firmware implements; its stop is   *)
(* the page's "S".                                                         *)
(***************************************************************************)
EXTENDS Robot

CONSTANTS
    Conns,         \* bound: the requests the browser has under way at once
    DELAY,         \* the ticks in which a request is handled or given up
    None           \* no button, no interval, no request

ASSUME TeleopHttpAssumption ==
    DELAY \in Nat /\ None \notin Commands

VARIABLES
    fingers,       \* the buttons a finger is on
    mouse,         \* the button the mouse was pressed on
    off,           \* whether the mouse has left that button since
    tap,           \* the button the browser makes up mouse events for
    timer,         \* the direction the interval sends, or None
    req,           \* the request on each connection
    letGo          \* history: ticks since a button was held, up to the bound

input    == <<fingers, mouse, off, tap>>
httpVars == <<input, timer, req, robot, letGo>>

\* The directions of the buttons.
Dirs == Commands \ {Stop}

Idle == [dir |-> None, age |-> 0]

Held == fingers # {} \/ mouse # None \/ tap # None

\* The longest the motors run on after the last button was let go.
RunOn == DELAY + WATCHDOG + REACTION

----------------------------------------------------------------------------
HttpInit ==
        /\ fingers = {} /\ mouse = None /\ off = FALSE /\ tap = None
        /\ timer = None
        /\ req = [c \in Conns |-> Idle]
        /\ RobotInit
        /\ letGo = RunOn + 1

----------------------------------------------------------------------------
(* The page *)

enviar(dir) == \E c \in Conns :
                  /\ req[c] = Idle
                  /\ req' = [req EXCEPT ![c] = [dir |-> dir, age |-> 0]]

\* Mutant: the loop is not cleared by a stop.
cmdKeepsLoop(dir) == IF dir = Stop
                     THEN enviar(Stop) /\ timer' = timer
                     ELSE timer' = dir /\ req' = req

\* A direction is first sent when the interval fires.
cmd(dir) == IF dir = Stop
            THEN enviar(Stop) /\ timer' = None
            ELSE timer' = dir /\ req' = req

Holding == letGo' = IF Held' THEN 0 ELSE letGo

touchstart(d) == /\ tap = None /\ d \notin fingers
                 /\ fingers' = fingers \cup {d}
                 /\ cmd(d)
                 /\ UNCHANGED <<mouse, off, tap, robot>>
                 /\ Holding

\* The button's handler sends the stop; the listener on the document clears an
\* interval that is cleared already.
touchend(d) == /\ tap = None /\ d \in fingers
               /\ fingers' = fingers \ {d}
               /\ tap' \in {None, d}
               /\ cmd(Stop)
               /\ UNCHANGED <<mouse, off, robot>>
               /\ Holding

\* The mouse events made up for a short touch.
tapDown == /\ tap # None /\ mouse = None
           /\ mouse' = tap /\ off' = FALSE /\ tap' = None
           /\ cmd(tap)
           /\ UNCHANGED <<fingers, robot>>
           /\ Holding

mousedown(d) == /\ tap = None /\ mouse = None
                /\ mouse' = d /\ off' = FALSE
                /\ cmd(d)
                /\ UNCHANGED <<fingers, tap, robot>>
                /\ Holding

\* The page has no handler for this.
mouseleave == /\ mouse # None /\ ~off
              /\ off' = TRUE
              /\ UNCHANGED <<fingers, mouse, tap, timer, req, robot, letGo>>

mouseup == /\ mouse # None /\ ~off
           /\ mouse' = None
           /\ cmd(Stop)
           /\ UNCHANGED <<fingers, off, tap, robot>>
           /\ Holding

\* Off the button only the listener on the document hears it.
mouseupElsewhere == /\ mouse # None /\ off
                    /\ mouse' = None /\ off' = FALSE
                    /\ timer' = None
                    /\ UNCHANGED <<fingers, tap, req, robot>>
                    /\ Holding

\* A finger leaves the slider: the same listener.
touchendElsewhere == /\ timer' = None
                     /\ UNCHANGED <<input, req, robot, letGo>>

stop == /\ cmd(Stop)
        /\ UNCHANGED <<input, robot, letGo>>

fire == /\ timer # None
        /\ enviar(timer)
        /\ UNCHANGED <<input, timer, robot, letGo>>

Page == \/ \E d \in Dirs : touchstart(d) \/ touchend(d) \/ mousedown(d)
        \/ tapDown \/ mouseleave \/ mouseup \/ mouseupElsewhere
        \/ touchendElsewhere \/ stop \/ fire

----------------------------------------------------------------------------
(* The handler of /acao, and the network *)

Done(c) == /\ req[c] # Idle
           /\ req' = [req EXCEPT ![c] = Idle]

acao(c) == /\ Done(c)
           /\ Hear(req[c].dir)
           /\ UNCHANGED <<input, timer, letGo>>

\* The mutex does not come within 5 ms, or the request is lost.
acaoDropped(c) == /\ Done(c)
                  /\ UNCHANGED <<input, timer, robot, letGo>>

\* The model ends when silence could be as long as a round of millis().
Tick == /\ heard + 1 < FOREVER
        /\ Elapse
        /\ \A c \in Conns : req[c].age < DELAY
        /\ req' = [c \in Conns |-> IF req[c] = Idle
                                   THEN Idle ELSE [req[c] EXCEPT !.age = @ + 1]]
        /\ letGo' = IF Held THEN 0
                    ELSE IF letGo <= RunOn THEN letGo + 1 ELSE letGo
        /\ UNCHANGED <<input, timer>>

Follow == /\ Drive
          /\ UNCHANGED <<input, timer, req, letGo>>

HttpNext ==
        \/ Page
        \/ \E c \in Conns : acao(c) \/ acaoDropped(c)
        \/ Tick \/ Follow

HttpSpec == HttpInit /\ [][HttpNext]_httpVars

----------------------------------------------------------------------------
(* Properties *)

HttpTypeOK ==
    /\ fingers \subseteq Dirs /\ mouse \in Dirs \cup {None}
    /\ off \in BOOLEAN /\ tap \in Dirs \cup {None}
    /\ timer \in Dirs \cup {None}
    /\ req \in [Conns -> {Idle} \cup [dir : Commands, age : 0 .. DELAY]]
    /\ command \in Commands /\ heard \in 0 .. FOREVER - 1
    /\ moved \in 0 .. REACTION + 1 /\ driven \in BOOLEAN
    /\ letGo \in 0 .. RunOn + 1

\* However the requests overtake each other and whichever stops are lost, the
\* motors run no longer than a request's delay, the watchdog's time and the
\* robot's reaction after the last button was let go.
StopsAfterRelease == driven => letGo <= RunOn

=============================================================================
