------------------------------- MODULE Teleop -------------------------------
(***************************************************************************)
(* Driving the robot from phones: the page the robot serves turns touches  *)
(* and clicks into websocket messages, repeats a held direction every      *)
(* 100 ms and reconnects when its socket closes; the robot's server gives  *)
(* each connection one of its client slots and hands what arrives to       *)
(* webSocketEvent.  A connection has two ends, and each may end without    *)
(* the other: the page's when its browser closes the socket, the robot's   *)
(* when the server drops the client or the robot restarts.                 *)
(*                                                                         *)
(* The robot is what Esteira shows it to be: a command, taken over whole   *)
(* or dropped, that moves it until the watchdog's time has passed.  The    *)
(* speed of the slider is left out: a motion is its direction.             *)
(***************************************************************************)
EXTENDS Integers, Sequences

CONSTANTS
    Pages,         \* the phones that show the page
    Dirs,          \* the directions of the buttons
    Slots,         \* the client slots of the websocket server
    INFLIGHT,      \* bound: the messages under way on one connection
    WATCHDOG,      \* the robot's watchdog, in ticks
    None           \* no button, no slot

ASSUME TeleopAssumption ==
    /\ INFLIGHT \in Nat \ {0} /\ WATCHDOG \in Nat
    /\ "P" \notin Dirs /\ None \notin Dirs \cup Slots

VARIABLES
    fingers,       \* the buttons a finger is on, as touchstart and touchend tell
                   \* it: the page does not listen for touchcancel
    mouse,         \* the button the mouse is pressed on
    tap,           \* the mouse events a browser still makes up after a touch
    timer,         \* whether the page's setInterval is running
    currentDir,
    ws,            \* the page's socket: "connecting", "open" or "waiting"
                   \* for the 2 s of its setTimeout
    link,          \* the slot that serves the page's open socket: none once
                   \* the robot has ended the connection
    client,        \* the slot: "free", "connected" or "gone" (ended, but the
                   \* server has not looked yet)
    chan,          \* the messages under way to the slot
    command,       \* the direction in sharedCmd, "P" for rest
    heard          \* the age of its stamp in ticks, up to WATCHDOG + 1

input   == <<fingers, mouse, tap>>
page    == <<timer, currentDir>>
network == <<ws, link, client>>
robot   == <<command, heard>>
vars    == <<input, page, network, chan, robot>>

NoTap == [dir |-> None, next |-> "down"]

Moving == command # "P" /\ heard <= WATCHDOG

Released(p) == fingers[p] = {} /\ mouse[p] = None /\ tap[p] = NoTap

----------------------------------------------------------------------------
Init == /\ fingers = [p \in Pages |-> {}]
        /\ mouse = [p \in Pages |-> None]
        /\ tap = [p \in Pages |-> NoTap]
        /\ timer = [p \in Pages |-> FALSE]
        /\ currentDir = [p \in Pages |-> "P"]
        /\ ws = [p \in Pages |-> "connecting"]
        /\ link = [p \in Pages |-> None]
        /\ client = [s \in Slots |-> "free"]
        /\ chan = [s \in Slots |-> <<>>]
        /\ command = "P" /\ heard = 0

----------------------------------------------------------------------------
(* The page *)

\* enviar: nothing is sent, and nothing kept, while the socket is not open; what
\* is sent on a connection that the robot has ended is lost.
enviar(p, dir) ==
    IF ws[p] = "open" /\ link[p] # None
    THEN /\ Len(chan[link[p]]) < INFLIGHT
         /\ chan' = [chan EXCEPT ![link[p]] = Append(@, dir)]
    ELSE UNCHANGED chan

\* Mutant: the interval is cleared only when the stop can be sent.
cmdKeepsTimer(p, dir) ==
    /\ timer' = [timer EXCEPT ![p] = dir # "P" \/ (@ /\ ws[p] # "open")]
    /\ currentDir' = IF dir # "P" \/ ws[p] = "open"
                     THEN [currentDir EXCEPT ![p] = dir] ELSE currentDir
    /\ enviar(p, dir)

\* Mutant: the message is made before the direction is stored.
cmdSendsOld(p, dir) ==
    /\ timer' = [timer EXCEPT ![p] = dir # "P"]
    /\ currentDir' = [currentDir EXCEPT ![p] = dir]
    /\ enviar(p, currentDir[p])

cmd(p, dir) ==
    /\ timer' = [timer EXCEPT ![p] = dir # "P"]
    /\ currentDir' = [currentDir EXCEPT ![p] = dir]
    /\ enviar(p, dir)

touchstart(p, d) == /\ tap[p] = NoTap /\ d \notin fingers[p]
                    /\ fingers' = [fingers EXCEPT ![p] = @ \cup {d}]
                    /\ cmd(p, d)
                    /\ UNCHANGED <<mouse, tap, network, robot>>

\* No handler calls preventDefault: a short touch is followed by the mouse
\* events the browser makes up for it.
touchend(p, d) == /\ tap[p] = NoTap /\ d \in fingers[p]
                  /\ fingers' = [fingers EXCEPT ![p] = @ \ {d}]
                  /\ tap' \in {tap, [tap EXCEPT ![p].dir = d]}
                  /\ cmd(p, "P")
                  /\ UNCHANGED <<mouse, network, robot>>

tapDown(p) == /\ tap[p].dir # None /\ tap[p].next = "down"
              /\ tap' = [tap EXCEPT ![p].next = "up"]
              /\ cmd(p, tap[p].dir)
              /\ UNCHANGED <<fingers, mouse, network, robot>>

tapUp(p) == /\ tap[p].next = "up"
            /\ tap' = [tap EXCEPT ![p] = NoTap]
            /\ cmd(p, "P")
            /\ UNCHANGED <<fingers, mouse, network, robot>>

mousedown(p, d) == /\ tap[p] = NoTap /\ mouse[p] = None
                   /\ mouse' = [mouse EXCEPT ![p] = d]
                   /\ cmd(p, d)
                   /\ UNCHANGED <<fingers, tap, network, robot>>

\* onmouseup and onmouseleave.
mouseup(p) == /\ tap[p] = NoTap /\ mouse[p] # None
              /\ mouse' = [mouse EXCEPT ![p] = None]
              /\ cmd(p, "P")
              /\ UNCHANGED <<fingers, tap, network, robot>>

\* The STOP button.
stop(p) == /\ tap[p] = NoTap
           /\ cmd(p, "P")
           /\ UNCHANGED <<input, network, robot>>

\* The interval fires.
repeat(p) == /\ timer[p]
             /\ enviar(p, currentDir[p])
             /\ UNCHANGED <<input, page, network, robot>>

User(p) == \/ \E d \in Dirs : touchstart(p, d) \/ touchend(p, d) \/ mousedown(p, d)
           \/ mouseup(p) \/ stop(p)

Browser(p) == tapDown(p) \/ tapUp(p)

----------------------------------------------------------------------------
(* The connections *)

\* Mutant: what was under way is read when the slot is given again.
disconnectKeepsRest(s) == command' \in {"P", command} /\ UNCHANGED chan

\* The end of a slot's connection: what was under way is lost, both speeds go
\* to zero unless the mutex does not come within 5 ms, and the stamp stays.
disconnect(s) == /\ chan' = [chan EXCEPT ![s] = <<>>]
                 /\ command' \in {"P", command}

\* The server gives the page a slot that is not in use, which it may only now
\* find to have ended; onOpen runs.
onOpen(p) ==
    /\ ws[p] = "connecting"
    /\ \E s \in Slots :
          /\ \/ client[s] = "free" /\ UNCHANGED <<chan, command>>
             \/ client[s] = "gone" /\ disconnect(s)
          /\ client' = [client EXCEPT ![s] = "connected"]
          /\ link' = [link EXCEPT ![p] = s]
    /\ ws' = [ws EXCEPT ![p] = "open"]
    /\ UNCHANGED <<input, page, heard>>

\* The attempt fails, or the server has no slot and drops it: onClose runs.
refused(p) == /\ ws[p] = "connecting"
              /\ ws' = [ws EXCEPT ![p] = "waiting"]
              /\ UNCHANGED <<input, page, link, client, chan, robot>>

\* The slots once the server's stack has heard that the page's socket closed.
Ended(p) == [s \in Slots |-> IF s = link[p] THEN "gone" ELSE client[s]]

\* An open socket closes at the page.  The robot may never hear of it; what is
\* under way may still arrive.
onClose(p) ==
    /\ ws[p] = "open"
    /\ ws' = [ws EXCEPT ![p] = "waiting"]
    /\ link' = [link EXCEPT ![p] = None]
    /\ client' \in {client, Ended(p)}
    /\ UNCHANGED <<input, page, chan, robot>>

\* A page that sends on a connection the robot has ended gets a reset.
found(p) == timer[p] /\ link[p] = None /\ onClose(p)

\* Mutant: the page does not try again.
initWebSocketOnce(p) == /\ ws[p] = "waiting" /\ timer[p]
                        /\ ws' = [ws EXCEPT ![p] = "connecting"]
                        /\ UNCHANGED <<input, page, link, client, chan, robot>>

\* setTimeout(initWebSocket, 2000).
initWebSocket(p) == /\ ws[p] = "waiting"
                    /\ ws' = [ws EXCEPT ![p] = "connecting"]
                    /\ UNCHANGED <<input, page, link, client, chan, robot>>

\* The page is loaded again: its scripts start over.
onLoad(p) ==
    /\ fingers' = [fingers EXCEPT ![p] = {}]
    /\ mouse' = [mouse EXCEPT ![p] = None]
    /\ tap' = [tap EXCEPT ![p] = NoTap]
    /\ timer' = [timer EXCEPT ![p] = FALSE]
    /\ currentDir' = [currentDir EXCEPT ![p] = "P"]
    /\ ws' = [ws EXCEPT ![p] = "connecting"]
    /\ link' = [link EXCEPT ![p] = None]
    /\ client' = Ended(p)
    /\ UNCHANGED <<chan, robot>>

----------------------------------------------------------------------------
(* webSocketEvent *)

\* Mutant: only a stop is stamped.
textNotStamped(s) == /\ client[s] # "free" /\ chan[s] # <<>>
                     /\ command' = Head(chan[s])
                     /\ heard' = IF command' = "P" THEN 0 ELSE heard
                     /\ chan' = [chan EXCEPT ![s] = Tail(@)]
                     /\ UNCHANGED <<input, page, network>>

text(s) == /\ client[s] # "free" /\ chan[s] # <<>>
           /\ command' = Head(chan[s]) /\ heard' = 0
           /\ chan' = [chan EXCEPT ![s] = Tail(@)]
           /\ UNCHANGED <<input, page, network>>

\* The mutex does not come within 5 ms.
textDropped(s) == /\ client[s] # "free" /\ chan[s] # <<>>
                  /\ chan' = [chan EXCEPT ![s] = Tail(@)]
                  /\ UNCHANGED <<input, page, network, robot>>

\* The server finds in its loop that the connection has ended.
disconnected(s) == /\ client[s] = "gone"
                   /\ disconnect(s)
                   /\ client' = [client EXCEPT ![s] = "free"]
                   /\ UNCHANGED <<input, page, ws, link, heard>>

\* The server finds the connection lost that the page still takes to be open.
dropped(s) == /\ client[s] = "connected"
              /\ disconnect(s)
              /\ client' = [client EXCEPT ![s] = "free"]
              /\ link' = [p \in Pages |-> IF link[p] = s THEN None ELSE link[p]]
              /\ UNCHANGED <<input, page, ws, heard>>

\* The robot starts again, and the pages do not know.
restart == /\ client' = [s \in Slots |-> "free"]
           /\ chan' = [s \in Slots |-> <<>>]
           /\ link' = [p \in Pages |-> None]
           /\ command' = "P" /\ heard' = 0
           /\ UNCHANGED <<input, page, ws>>

----------------------------------------------------------------------------
Tick == /\ heard <= WATCHDOG
        /\ heard' = heard + 1
        /\ UNCHANGED <<input, page, network, chan, command>>

Next == \/ \E p \in Pages : \/ User(p) \/ Browser(p) \/ repeat(p)
                            \/ onOpen(p) \/ refused(p) \/ onClose(p)
                            \/ initWebSocket(p) \/ onLoad(p)
        \/ \E s \in Slots : text(s) \/ textDropped(s) \/ disconnected(s) \/ dropped(s)
        \/ restart \/ Tick

Spec == Init /\ [][Next]_vars

(***************************************************************************)
(* Time passes, browsers run their timers, the server looks at every slot  *)
(* in every loop, an attempt to connect succeeds now and then, and so does *)
(* the handler's attempt to take the mutex.  A socket that goes on sending  *)
(* to nobody is closed at last.  Nothing is assumed of users, and nothing  *)
(* of how often connections are lost.                                      *)
(***************************************************************************)
Fairness == /\ WF_vars(Tick)
            /\ \A p \in Pages : /\ WF_vars(repeat(p)) /\ WF_vars(Browser(p))
                                /\ SF_vars(onOpen(p)) /\ WF_vars(initWebSocket(p))
                                /\ WF_vars(found(p))
            /\ \A s \in Slots : SF_vars(text(s)) /\ WF_vars(disconnected(s))

LiveSpec == Spec /\ Fairness

----------------------------------------------------------------------------
(* Properties *)

TypeOK ==
    /\ fingers \in [Pages -> SUBSET Dirs]
    /\ mouse \in [Pages -> Dirs \cup {None}]
    /\ tap \in [Pages -> [dir : Dirs \cup {None}, next : {"down", "up"}]]
    /\ timer \in [Pages -> BOOLEAN]
    /\ currentDir \in [Pages -> Dirs \cup {"P"}]
    /\ ws \in [Pages -> {"connecting", "open", "waiting"}]
    /\ link \in [Pages -> Slots \cup {None}]
    /\ \A p \in Pages : link[p] # None => ws[p] = "open"
    /\ client \in [Slots -> {"free", "connected", "gone"}]
    /\ chan \in [Slots -> Seq(Dirs \cup {"P"})]
    /\ \A s \in Slots : Len(chan[s]) <= INFLIGHT
    /\ command \in Dirs \cup {"P"} /\ heard \in 0 .. WATCHDOG + 1

\* The buttons that are held, or that the browser is about to press.
Holds(p) == fingers[p] \cup {mouse[p], tap[p].dir}

\* The page repeats a direction only while that very button is held, whatever
\* fingers and mouse did in between and whether or not it was online.
RepeatsOnlyWhatIsHeld == \A p \in Pages : timer[p] => currentDir[p] \in Holds(p)

\* The robot is told last what the page did last: on a connection that is served
\* the last message under way is the word of the page's last handler.  The stop of
\* a release is behind every direction, and no slot that is given again still holds
\* what this page or another had under way on a connection that has ended.
LastWord ==
    \A p \in Pages : link[p] # None =>
        LET q == chan[link[p]] IN q # <<>> => q[Len(q)] = currentDir[p]

\* A direction is put under way only on the connection of a page on which its
\* button is held: after the last release what is under way can only shrink.
SentIsHeld ==
    [][\A s \in Slots, d \in Dirs : chan'[s] = Append(chan[s], d) =>
          \E p \in Pages : link[p] = s /\ d \in Holds(p)']_vars

\* The dead man's switch, end to end: when every button stays released, the
\* robot comes to rest for good, although stops get lost on dead connections,
\* are dropped at the mutex or are overtaken by what an older connection
\* still had under way.
ReleaseStops == <>[](\A p \in Pages : Released(p)) => <>[]~Moving

\* A button held on an open connection drives the robot again and again,
\* whatever the other phones do.
HoldDrives ==
    \A p \in Pages : <>[](timer[p] /\ ws[p] = "open") => []<>Moving

\* A page keeps getting online as long as one slot is free, ended, or its own:
\* every attempt that fails is followed by another one, and a page on which a
\* direction is held does not stay on a connection that the robot has ended.
Available(p) == \E s \in Slots : client[s] # "connected" \/ s = link[p]

Online(p) == ws[p] = "open" /\ (timer[p] => link[p] # None)

OnlineWhileAvailable == \A p \in Pages : <>[]Available(p) => []<>Online(p)

=============================================================================
