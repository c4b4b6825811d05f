---------------------------- MODULE MpuDashboard ----------------------------
(***************************************************************************)
(* MPU6050/MPU com wifi: a task on core 0 filters the angles of up to      *)
(* three sensors, loop() on core 1 serves them to a page.  xMutex lies     *)
(* between them.  When the station loses its network, loop() gives port 80 *)
(* to WiFiManager's portal and stays in it; every way out is a restart.    *)
(*                                                                         *)
(* One step is one access to something the other core, the radio or the    *)
(* clock can change meanwhile.                                             *)
(***************************************************************************)
EXTENDS WiFiManager, Integers, Sequences

CONSTANTS SENSORS,          \* the number of sensors
          CLOCK_MOD         \* the number of values of micros()

ASSUME DashboardAssumption == SENSORS \in Nat \ {0} /\ CLOCK_MOD \in Nat \ {0}

VARIABLES
    server,     \* whether the dashboard's own server listens on port 80
    at,         \* core 1: "portal" within setup(), "setup", "loop", "lost",
                \* "reconnect", or in handleData: "wait", "read", "send"
    got,        \* the angles the response holds so far
    kt,         \* TaskKalman: "none", "take", "measure", "stamp", "delay"
    cur,        \* the sensor it is at
    mpu_ok,     \* the sensors that answered when the task began
    angle,      \* per sensor, whether the samples taken in are odd in number
    timer,      \* per sensor, micros() at its last sample
    xMutex,     \* "free" or who holds it
    clock,      \* micros()
    since       \* history: ticks since each sensor's last sample

loopVars   == <<wm, server, at, got>>
kalmanVars == <<kt, cur, mpu_ok, angle, timer, since>>
vars       == <<loopVars, kalmanVars, xMutex, clock>>

Sensors == 1 .. SENSORS

Zeros == [i \in Sensors |-> 0]

\* autoConnect returns once connected, or stays in its portal.
Booted(flash, accepted) == autoConnect(PowerOn(flash), accepted)

Start(w) == IF w.cfg THEN "portal" ELSE "setup"

Init == /\ \E flash \in Credentials, accepted \in BOOLEAN :
              wm = Booted(flash, accepted)
        /\ at = Start(wm)
        /\ server = FALSE /\ got = << >>
        /\ kt = "none" /\ cur = 1 /\ mpu_ok = {}
        /\ angle = Zeros /\ timer = Zeros /\ since = Zeros
        /\ xMutex = "free" /\ clock = 0

\* ESP.restart()
Restart(flash) ==
    /\ \E accepted \in BOOLEAN : wm' = Booted(flash, accepted)
    /\ at' = Start(wm')
    /\ server' = FALSE /\ got' = << >>
    /\ kt' = "none" /\ cur' = 1 /\ mpu_ok' = {}
    /\ angle' = Zeros /\ timer' = Zeros /\ since' = Zeros
    /\ xMutex' = "free" /\ clock' = 0

----------------------------------------------------------------------------
(* Core 1: setup() and loop() *)

Setup == /\ at = "setup"
         /\ at' = "loop" /\ server' = TRUE
         /\ kt' = "take" /\ mpu_ok' \in SUBSET Sensors
         /\ timer' = [i \in Sensors |-> clock] /\ since' = Zeros
         /\ UNCHANGED <<wm, got, cur, angle, xMutex, clock>>

OtaEnd == /\ at = "loop" /\ Online(wm)
          /\ Restart(wm.stored)

\* Mutant: the dashboard's server keeps its port.
LostServing == /\ at = "loop" /\ ~Online(wm)
               /\ at' = "lost"
               /\ UNCHANGED <<wm, server, got, kalmanVars, xMutex, clock>>

Lost == /\ at = "loop" /\ ~Online(wm)
        /\ at' = "lost" /\ server' = FALSE
        /\ UNCHANGED <<wm, got, kalmanVars, xMutex, clock>>

Reconnect == /\ at = "lost"
             /\ wm' = startConfigPortal(wm)
             /\ at' = "reconnect"
             /\ UNCHANGED <<server, got, kalmanVars, xMutex, clock>>

\* The portal has no timeout, and the callback of a save that got connected
\* restarts the board: nothing is left of the shutdown that would follow.
Served == {processConfigPortal(wm, x) :
              x \in [request : Requests, accepted : BOOLEAN, timeout : {FALSE},
                     last : {"nobody"}, idle : {TRUE}]}

InPortal == at \in {"portal", "reconnect"}

PortalGoesOn == /\ InPortal /\ ~wm.abort
                /\ wm' \in {w \in Served : w.cfg}
                /\ UNCHANGED <<server, at, got, kalmanVars, xMutex, clock>>

PortalEnds == /\ InPortal
              /\ \/ wm.abort /\ Restart(wm.stored)
                 \/ ~wm.abort /\ \E w \in {v \in Served : ~v.cfg} : Restart(w.stored)
                 \/ ~wm.abort /\ \E flash \in {wm.stored, "empty"} : Restart(flash)

\* A request for /data: handleData
Ask == /\ at = "loop"
       /\ at' = "wait"
       /\ UNCHANGED <<wm, server, got, kalmanVars, xMutex, clock>>

\* Mutant: the angles are read without the mutex.
TakeUnlocked == /\ at = "wait"
                /\ at' = "read" /\ got' = << >>
                /\ UNCHANGED <<wm, server, kalmanVars, xMutex, clock>>

TakeData == /\ at = "wait" /\ xMutex = "free"
            /\ at' = "read" /\ got' = << >> /\ xMutex' = "loop"
            /\ UNCHANGED <<wm, server, kalmanVars, clock>>

ReadAngle == /\ at = "read" /\ Len(got) < SENSORS
             /\ got' = Append(got, angle[Len(got) + 1])
             /\ UNCHANGED <<wm, server, at, kalmanVars, xMutex, clock>>

\* Mutant: the mutex is not given back.
GiveDataNot == /\ at = "read" /\ Len(got) = SENSORS
               /\ at' = "send"
               /\ UNCHANGED <<wm, server, got, kalmanVars, xMutex, clock>>

GiveData == /\ at = "read" /\ Len(got) = SENSORS
            /\ at' = "send" /\ xMutex' = "free"
            /\ UNCHANGED <<wm, server, got, kalmanVars, clock>>

Send == /\ at = "send"
        /\ at' = "loop" /\ got' = << >>
        /\ UNCHANGED <<wm, server, kalmanVars, xMutex, clock>>

----------------------------------------------------------------------------
(* Core 0: TaskKalman *)

TakeKalman == /\ kt = "take" /\ xMutex = "free"
              /\ kt' = "measure" /\ xMutex' = "kalman"
              /\ UNCHANGED <<loopVars, cur, mpu_ok, angle, timer, clock, since>>

\* Mutant: the timers are renewed in a round without samples.
SkipRenewing == /\ kt = "take" /\ xMutex = "loop"
                /\ kt' = "delay" /\ timer' = [i \in Sensors |-> clock]
                /\ UNCHANGED <<loopVars, cur, mpu_ok, angle, xMutex, clock, since>>

\* Five ticks without the mutex.
Skip == /\ kt = "take" /\ xMutex = "loop"
        /\ kt' = "delay"
        /\ UNCHANGED <<loopVars, cur, mpu_ok, angle, timer, xMutex, clock, since>>

\* dt = micros() - timer, in double: not an unsigned difference.
Dt(i) == clock - timer[i]

Measure == /\ kt = "measure" /\ cur \in mpu_ok
           /\ kt' = "stamp"
           /\ UNCHANGED <<loopVars, cur, mpu_ok, angle, timer, xMutex, clock, since>>

\* The other sensors wait; the last one ends the round and gives the mutex back.
NextSensor == IF cur < SENSORS
              THEN kt' = "measure" /\ cur' = cur + 1 /\ UNCHANGED xMutex
              ELSE kt' = "delay" /\ cur' = 1 /\ xMutex' = "free"

Missing == /\ kt = "measure" /\ cur \notin mpu_ok
           /\ NextSensor
           /\ UNCHANGED <<loopVars, mpu_ok, angle, timer, clock, since>>

Stamp == /\ kt = "stamp"
         /\ timer' = [timer EXCEPT ![cur] = clock]
         /\ since' = [since EXCEPT ![cur] = 0]
         /\ angle' = [angle EXCEPT ![cur] = 1 - @]
         /\ NextSensor
         /\ UNCHANGED <<loopVars, mpu_ok, clock>>

Wake == /\ kt = "delay"
        /\ kt' = "take"
        /\ UNCHANGED <<loopVars, cur, mpu_ok, angle, timer, xMutex, clock, since>>

----------------------------------------------------------------------------
(* The radio and the time *)

Associate == /\ Associates
             /\ UNCHANGED <<server, at, got, kalmanVars, xMutex, clock>>

Lose == /\ Loses
        /\ UNCHANGED <<server, at, got, kalmanVars, xMutex, clock>>

Tick == /\ kt # "none"
        /\ clock' = (clock + 1) % CLOCK_MOD
        /\ since' = [i \in Sensors |->
                        IF since[i] < CLOCK_MOD THEN since[i] + 1 ELSE CLOCK_MOD]
        /\ UNCHANGED <<loopVars, kt, cur, mpu_ok, angle, timer, xMutex>>

Core1 == \/ Setup \/ Lost \/ Reconnect \/ PortalGoesOn \/ PortalEnds \/ OtaEnd
         \/ Ask \/ TakeData \/ ReadAngle \/ GiveData \/ Send

Core0 == TakeKalman \/ Skip \/ Measure \/ Missing \/ Stamp \/ Wake

Next == Core1 \/ Core0 \/ Associate \/ Lose \/ Tick

Spec == Init /\ [][Next]_vars

\* Both cores run.  A mutex that is given back goes to handleData if it waits:
\* TaskKalman sleeps before it asks again.
Fairness == WF_vars(Core1) /\ WF_vars(Core0) /\ SF_vars(TakeData)

LiveSpec == Spec /\ Fairness

----------------------------------------------------------------------------
TypeOK ==
    /\ wm \in Portals /\ server \in BOOLEAN /\ mpu_ok \subseteq Sensors
    /\ at \in {"portal", "setup", "loop", "lost", "reconnect",
               "wait", "read", "send"}
    /\ got \in Seq({0, 1}) /\ Len(got) <= SENSORS
    /\ kt \in {"none", "take", "measure", "stamp", "delay"} /\ cur \in Sensors
    /\ angle \in [Sensors -> {0, 1}]
    /\ timer \in [Sensors -> 0 .. CLOCK_MOD - 1]
    /\ since \in [Sensors -> 0 .. CLOCK_MOD]
    /\ xMutex \in {"free", "kalman", "loop"} /\ clock \in 0 .. CLOCK_MOD - 1

\* A response shows the angles of one round: never one sensor's new angle next
\* to another one's old angle.
OneRound == at = "send" => \A i, j \in mpu_ok : got[i] = got[j]

\* The portal never finds port 80 taken by the dashboard's server, and the
\* dashboard's server not by the portal.
PortFree == ~(server /\ wm.server # "none")

\* The filter is given the time since the sensor's last sample, over any number
\* of rounds skipped for the mutex, unless micros() has gone round since.
DtIsElapsed == kt = "measure" /\ cur \in mpu_ok =>
                  Dt(cur) = since[cur] \/ since[cur] > clock

\* handleData's wait without a time limit comes to an end.
DataAnswered == (at = "wait") ~> (at = "send")

=============================================================================
