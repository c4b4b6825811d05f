------------------------- MODULE WiFiManager_proofs --------------------------
(***************************************************************************)
(* The two sketches on WiFiManager.  MpuDashboard, for any number of       *)
(* sensors and width of micros(): a response shows the angles of one       *)
(* round, port 80 has one server, and the filter's dt is the time since    *)
(* the sample before, over every number of rounds skipped.  PortalLed, at  *)
(* the end of the module: portals and their servers.                       *)
(***************************************************************************)
EXTENDS MpuDashboard, PortalLed, TLAPS

\* TypeOK without WiFiManager's record, in which no number occurs.
Places == /\ at \in {"portal", "setup", "loop", "lost", "reconnect",
                     "wait", "read", "send"}
          /\ kt \in {"none", "take", "measure", "stamp", "delay"}
          /\ xMutex \in {"free", "kalman", "loop"}

Numbers == /\ mpu_ok \subseteq Sensors /\ cur \in Sensors
           /\ got \in Seq({0, 1}) /\ angle \in [Sensors -> {0, 1}]
           /\ timer \in [Sensors -> 0 .. CLOCK_MOD - 1]
           /\ since \in [Sensors -> 0 .. CLOCK_MOD] /\ clock \in 0 .. CLOCK_MOD - 1

\* The mutex is held exactly in the two sections between take and give, and
\* TaskKalman is within a round only there.
MutexInv == /\ (xMutex = "kalman") <=> kt \in {"measure", "stamp"}
            /\ (xMutex = "loop") <=> (at = "read")
            /\ kt \notin {"measure", "stamp"} => cur = 1
            /\ kt = "stamp" => cur \in mpu_ok

\* Before Setup there is no task and no sample.
StartInv == at \in {"portal", "setup"} => kt = "none" /\ angle = Zeros

\* The connected sensors this round has been at are one sample ahead of the
\* others.
RoundInv == \A i, j \in mpu_ok :
               angle[i] = IF (i < cur) <=> (j < cur) THEN angle[j] ELSE 1 - angle[j]

\* A response in the making copies the angles as they are, a complete one those
\* of one round.
GotInv == /\ at = "read" => /\ Len(got) <= SENSORS
                            /\ \A k \in 1 .. Len(got) : got[k] = angle[k]
          /\ at = "send" => \A i, j \in mpu_ok : got[i] = got[j]

\* Until micros() has gone round, the timer is as far back as the last sample.
DtInv == \A i \in Sensors : since[i] <= clock => clock - timer[i] = since[i]

RoundsInv == Places /\ Numbers /\ MutexInv /\ StartInv /\ RoundInv /\ GotInv

Inv == RoundsInv /\ DtInv

----------------------------------------------------------------------------
\* Everything a restart sets but WiFiManager and where loop() is.
Cleared == /\ got = << >> /\ kt = "none" /\ cur = 1 /\ mpu_ok = {}
           /\ angle = Zeros /\ timer = Zeros /\ since = Zeros
           /\ xMutex = "free" /\ clock = 0 /\ at \in {"portal", "setup"}

\* A cleared board satisfies the invariant.
LEMMA ClearedInv == Cleared => Inv
<1> SUFFICES ASSUME Cleared PROVE Inv
    OBVIOUS
<1> USE DashboardAssumption DEF Cleared, Zeros, Sensors
<1>1. Places
      BY DEF Places
<1>2. Numbers
      BY DEF Numbers
<1>3. MutexInv /\ StartInv /\ RoundInv /\ GotInv
      BY DEF MutexInv, StartInv, RoundInv, GotInv
<1>4. DtInv
      BY DEF DtInv
<1> QED
    BY <1>1, <1>2, <1>3, <1>4 DEF Inv, RoundsInv

\* So does one after ESP.restart(), whatever is in flash.
LEMMA RestartInv == ASSUME NEW flash, Restart(flash) PROVE Inv'
<1>1. Cleared'
      BY DEF Restart, Cleared, Start, Zeros, Sensors
<1>2. Cleared' => Inv'
      BY ClearedInv, PTL
<1> QED
    BY <1>1, <1>2

\* A board that starts satisfies the invariant.
LEMMA Initial == Init => Inv
<1>1. Init => Cleared
      BY DEF Init, Cleared, Start
<1> QED
    BY <1>1, ClearedInv

\* Restarts apart, what loop() does outside of handleData leaves TaskKalman,
\* the mutex and the angles alone.
Elsewhere == \/ Lost \/ Reconnect \/ PortalGoesOn \/ Ask \/ Send
             \/ Associate \/ Lose

\* The end of a portal and of an upload are restarts.
Restarts == PortalEnds \/ OtaEnd

----------------------------------------------------------------------------
(* WiFiManager *)

\* A portal whose servers can be asked.
Serving(w) == w \in Portals /\ ~w.fault /\ w.server # "none" /\ (w.dns <=> w.cfg)

\* Servers exist for the portals that are open and for no other.
Whole(w) == /\ w \in Portals /\ ~w.fault
            /\ (w.server # "none") <=> (w.cfg \/ w.web)
            /\ w.dns <=> w.cfg

\* The portal has its servers and is the only one; the dashboard's server is
\* there only outside of it.
PortalInv == /\ Whole(wm) /\ ~wm.web
             /\ wm.cfg <=> InPortal
             /\ server \in BOOLEAN
             /\ server => at \in {"loop", "wait", "read", "send"}

\* A request changes what it asks for, never the portal's servers.
LEMMA RequestKeeps ==
    ASSUME NEW w, Serving(w), NEW r \in Requests
    PROVE  LET h == handleClient(processNextRequest(w), r)
           IN Serving(h) /\ h.cfg = w.cfg /\ h.web = w.web
<1> DEFINE h == handleClient(w, r)
<1>1. processNextRequest(w) = w
      BY DEF processNextRequest, Serving
<1>2. CASE r = "exit"
  <2>1. h = [w EXCEPT !.abort = TRUE]
        BY <1>2 DEF handleClient, Serving
  <2>2. /\ h \in Portals /\ h.fault = w.fault /\ h.server = w.server
        /\ h.dns = w.dns /\ h.cfg = w.cfg /\ h.web = w.web
        BY <2>1 DEF Serving, Portals
  <2> QED
      BY <1>1, <2>2 DEF Serving
<1>3. CASE r # "exit" /\ r \in Credentials
  <2>1. h = [w EXCEPT !.connect = TRUE, !.ssid = r]
        BY <1>3 DEF handleClient, Serving
  <2>2. h \in Portals
        BY <1>3, <2>1 DEF Serving, Portals
  <2>3. ~h.fault /\ h.server # "none" /\ (h.dns <=> h.cfg) /\ h.cfg = w.cfg /\ h.web = w.web
        BY <2>1 DEF Serving, Portals
  <2> QED
      BY <1>1, <2>2, <2>3 DEF Serving
<1>4. CASE r # "exit" /\ r \notin Credentials
      BY <1>1, <1>4 DEF handleClient, Serving
<1> QED
    BY <1>2, <1>3, <1>4

\* connectWifi stores the credentials and tries them.
LEMMA ConnectKeeps ==
    ASSUME NEW w, Serving(w), NEW accepted
    PROVE  LET c == connectWifi(w, accepted)
           IN Serving(c) /\ c.cfg = w.cfg /\ c.web = w.web /\ c.connect = w.connect
BY DEF connectWifi, Serving, Portals, Credentials

\* A save that failed may forget it and switch the station off.
LEMMA FailureKeeps ==
    ASSUME NEW w, Serving(w)
    PROVE  LET c == SaveFailed(w)
           IN Serving(c) /\ c.cfg = w.cfg /\ c.web = w.web /\ c.connect = w.connect
<1>1. CASE BLOCKING
      BY <1>1 DEF SaveFailed, Serving, Portals, Credentials
<1>2. CASE ~BLOCKING
      BY <1>2 DEF SaveFailed
<1> QED
    BY <1>1, <1>2

\* The sketch's routes are added to the server there is.
LEMMA RoutesKeep ==
    ASSUME NEW w, w.server # "none", Serving(w) \/ Whole(w)
    PROVE  LET v == on(w)
           IN /\ Serving(w) => Serving(v)
              /\ Whole(w) => Whole(v)
              /\ v.cfg = w.cfg /\ v.web = w.web /\ v.connect = w.connect
              /\ v.sta = w.sta
<1>1. PICK routes \in {"custom", "repeated"} : on(w) = [w EXCEPT !.server = routes]
      BY DEF on
<1> QED
    BY <1>1 DEF Serving, Whole, Portals

\* So does the callback of a save that got connected.
LEMMA CallbackKeeps ==
    ASSUME NEW w, Serving(w)
    PROVE  LET c == saveCallback(w)
           IN Serving(c) /\ c.cfg = w.cfg /\ c.web = w.web /\ c.connect = w.connect
<1>1. w.server # "none"
      BY DEF Serving
<1> QED
    BY <1>1, RoutesKeep DEF saveCallback

\* A shutdown closes the configuration portal with its servers, unless the web
\* portal is open: then it changes nothing.
LEMMA ShutdownCloses ==
    ASSUME NEW w, Serving(w), NEW x, x.last \in Requests
    PROVE  LET v == shutdownConfigPortal(w, x)
           IN /\ w.web => v = w
              /\ ~w.web => Whole(v) /\ ~v.cfg /\ ~v.web
<1> DEFINE h == handleClient(processNextRequest(w), x.last)
           s == [h EXCEPT !.server = "none"]
           sta == IF s.sta = "off" /\ x.idle THEN "trying" ELSE s.sta
           v == shutdownConfigPortal(w, x)
<1>1. CASE w.web
      BY <1>1 DEF shutdownConfigPortal
<1>2. CASE ~w.web
  <2>1. v = IF ~w.cfg THEN s
            ELSE [s EXCEPT !.dns = FALSE, !.cfg = FALSE, !.sta = sta]
        BY <1>2 DEF shutdownConfigPortal
  <2>2. Serving(h) /\ h.cfg = w.cfg /\ h.web = w.web
        BY RequestKeeps
  <2> HIDE DEF h
  <2>3. s \in Portals /\ ~s.fault /\ s.server = "none" /\ s.dns = h.dns
        /\ s.cfg = w.cfg /\ ~s.web
        BY <1>2, <2>2 DEF Serving, Portals
  <2>4. h.dns <=> h.cfg
        BY <2>2 DEF Serving
  <2> HIDE DEF s
  <2>5. CASE ~w.cfg
    <3>1. v = s
          BY <2>1, <2>5
    <3> HIDE DEF v
    <3> QED
        BY <1>2, <2>2, <2>3, <2>4, <2>5, <3>1 DEF Whole, v
  <2>6. CASE w.cfg
    <3>1. v = [s EXCEPT !.dns = FALSE, !.cfg = FALSE, !.sta = sta]
          BY <2>1, <2>6
    <3>2. sta \in {"off", "trying", "connected"}
          BY <2>3 DEF Portals
    <3> HIDE DEF sta, v
    <3>3. v \in Portals /\ ~v.fault /\ v.server = "none" /\ ~v.dns /\ ~v.cfg /\ ~v.web
          BY <2>3, <3>1, <3>2 DEF Portals
    <3> QED
        BY <1>2, <3>3 DEF Whole, v
  <2> QED
      BY <1>2, <2>5, <2>6
<1> QED
    BY <1>1, <1>2

\* An open portal looks at one request: afterwards it is open with its servers
\* and has nothing left to replay, or it is closed.
LEMMA ProcessKeeps ==
    ASSUME NEW w, Serving(w), w.cfg \/ w.web,
           NEW x, x.request \in Requests, x.last \in Requests
    PROVE  LET v == processConfigPortal(w, x)
           IN /\ Whole(v) /\ (v.cfg \/ v.web => ~v.connect)
              /\ ~w.web => ~v.web
<1> DEFINE h == handleClient(processNextRequest(w), x.request)
           t == [h EXCEPT !.connect = FALSE]
           c == connectWifi(t, x.accepted)
           s == saveCallback(c)
           v == processConfigPortal(w, x)
           Still(u) == Serving(u) /\ u.cfg = w.cfg /\ u.web = w.web
<1>1. v = IF ~h.connect            THEN h
          ELSE IF h.ssid = "empty" THEN SaveFailed(t)
          ELSE IF Online(c)        THEN shutdownConfigPortal(s, x)
          ELSE SaveFailed(c)
      BY DEF processConfigPortal
<1>2. Still(h)
      BY RequestKeeps
<1> HIDE DEF h
<1>3. Still(t) /\ ~t.connect
      BY <1>2 DEF Serving, Portals
<1> HIDE DEF t
<1>4. Still(c) /\ ~c.connect
      BY <1>3, ConnectKeeps
<1> HIDE DEF c
<1>5. Still(s) /\ ~s.connect
      BY <1>4, CallbackKeeps
<1> HIDE DEF s, v
<1>6. ASSUME NEW u, Still(u), ~u.connect
      PROVE  Whole(u) /\ (~w.web => ~u.web)
      BY <1>6 DEF Serving, Whole
<1>7. /\ Still(SaveFailed(t)) /\ ~SaveFailed(t).connect
      /\ Still(SaveFailed(c)) /\ ~SaveFailed(c).connect
      BY <1>3, <1>4, FailureKeeps
<1>8. CASE v = shutdownConfigPortal(s, x)
  <2>1. CASE s.web
        BY <1>5, <1>6, <1>8, <2>1, ShutdownCloses DEF v
  <2>2. CASE ~s.web
        BY <1>5, <1>8, <2>2, ShutdownCloses DEF v
  <2> QED
      BY <2>1, <2>2
<1> QED
    BY <1>1, <1>2, <1>3, <1>4, <1>6, <1>7, <1>8 DEF v

\* Opening the configuration portal: there is one with its servers afterwards.
LEMMA OpenKeeps ==
    ASSUME NEW w, Whole(w)
    PROVE  LET v == startConfigPortal(w)
           IN /\ Whole(v) /\ v.cfg /\ v.web = w.web
              /\ ~w.cfg => ~v.connect
              /\ w.cfg => v = w
<1>1. CASE w.cfg
      BY <1>1 DEF startConfigPortal
<1>2. CASE ~w.cfg
      BY <1>2 DEF startConfigPortal, setupConfigPortal, Whole, Portals
<1> QED
    BY <1>1, <1>2

\* Opening the web portal: there is a portal afterwards.
LEMMA OpenWebKeeps ==
    ASSUME NEW w, Whole(w)
    PROVE  LET v == startWebPortal(w)
           IN /\ Whole(v) /\ (v.cfg \/ v.web) /\ v.cfg = w.cfg /\ v.sta = w.sta
              /\ ~w.cfg /\ ~w.web => ~v.connect
              /\ w.cfg \/ w.web => v = w
<1>1. CASE w.cfg \/ w.web
      BY <1>1 DEF startWebPortal
<1>2. CASE ~(w.cfg \/ w.web)
      BY <1>2 DEF startWebPortal, setupConfigPortal, Whole, Portals
<1> QED
    BY <1>1, <1>2

\* autoConnect ends connected or with the portal, whatever is in flash.
LEMMA BootKeeps ==
    ASSUME NEW flash \in Credentials, NEW accepted
    PROVE  LET v == autoConnect(PowerOn(flash), accepted)
           IN Whole(v) /\ ~v.web /\ ~v.connect /\ (v.sta = "off" => v.cfg)
<1> DEFINE p == PowerOn(flash)
           q == [p EXCEPT !.sta = "trying"]
           v == autoConnect(p, accepted)
<1>1. Whole(p) /\ p \in Portals /\ ~p.web /\ ~p.cfg /\ ~p.connect /\ p.server = "none"
      BY DEF PowerOn, Whole, Portals, Credentials
<1>2. v = [p EXCEPT !.sta = "connected"] \/ v = startConfigPortal(q)
      BY DEF autoConnect
<1> HIDE DEF p, v
<1>3. Whole(q) /\ ~q.web /\ ~q.cfg
      BY <1>1 DEF Whole, Portals
<1>4. CASE v = [p EXCEPT !.sta = "connected"]
      BY <1>1, <1>4 DEF Whole, Portals, v, p
<1>5. CASE v = startConfigPortal(q)
      BY <1>3, <1>5, OpenKeeps DEF v, p
<1> QED
    BY <1>2, <1>4, <1>5

\* A restart leaves a board on which only the portal may be.
LEMMA RestartPortal ==
    ASSUME NEW flash \in Credentials, Restart(flash) PROVE PortalInv'
<1>1. PICK accepted \in BOOLEAN : wm' = Booted(flash, accepted)
      BY DEF Restart
<1>2. Whole(wm') /\ ~wm'.web
      BY <1>1, BootKeeps DEF Booted
<1>3. at' = IF wm'.cfg THEN "portal" ELSE "setup"
      BY DEF Restart, Start
<1>4. server' = FALSE
      BY DEF Restart
<1>5. Whole(wm)'
      BY <1>2 DEF Whole
<1> QED
    BY <1>2, <1>3, <1>4, <1>5 DEF PortalInv, InPortal

\* What processConfigPortal makes of the dashboard's portal.
LEMMA ServedKeeps ==
    ASSUME PortalInv, wm.cfg, NEW v \in Served
    PROVE  Whole(v) /\ ~v.web
<1>1. PICK x \in [request : Requests, accepted : BOOLEAN, timeout : {FALSE},
                  last : {"nobody"}, idle : {TRUE}] :
              v = processConfigPortal(wm, x)
      BY DEF Served
<1>2. Serving(wm) /\ ~wm.web
      BY DEF PortalInv, Whole, Serving
<1>3. x.request \in Requests /\ x.last \in Requests
      BY DEF Requests
<1> QED
    BY <1>1, <1>2, <1>3, ProcessKeeps

\* Port 80 goes from the dashboard's server to the portal and to no other.
LEMMA PortalStep == Places /\ PortalInv /\ [Next]_vars => PortalInv'
<1> SUFFICES ASSUME Places, PortalInv, [Next]_vars PROVE PortalInv'
    OBVIOUS
<1>0. wm.stored \in Credentials /\ "empty" \in Credentials
      BY DEF PortalInv, Whole, Portals, Credentials
<1>2. CASE OtaEnd
      BY <1>0, <1>2, RestartPortal DEF OtaEnd
<1>3. CASE Lost \/ Setup
      BY <1>3 DEF Lost, Setup, PortalInv, Whole, InPortal
<1>4. CASE Reconnect
  <2>1. at = "lost" /\ at' = "reconnect" /\ server' = server
        /\ wm' = startConfigPortal(wm)
        BY <1>4 DEF Reconnect
  <2>2. Whole(wm) /\ ~wm.web /\ ~server /\ server \in BOOLEAN
        BY <2>1 DEF PortalInv
  <2>3. Whole(wm') /\ wm'.cfg /\ ~wm'.web
        BY <2>1, <2>2, OpenKeeps
  <2> QED
      BY <2>1, <2>2, <2>3 DEF PortalInv, Whole, InPortal
<1>5. CASE PortalGoesOn
  <2>1. wm' \in Served /\ wm'.cfg /\ UNCHANGED <<server, at>> /\ InPortal
        BY <1>5 DEF PortalGoesOn
  <2>2. Whole(wm') /\ ~wm'.web
        BY <2>1, ServedKeeps DEF PortalInv
  <2> QED
      BY <2>1, <2>2 DEF PortalInv, Whole, InPortal
<1>6. CASE PortalEnds
  <2>1. \A w \in Served : w.stored \in Credentials
        BY <1>6, ServedKeeps DEF PortalEnds, PortalInv, Whole, Portals
  <2>2. \E flash \in Credentials : Restart(flash)
        BY <1>0, <1>6, <2>1 DEF PortalEnds
  <2> QED
      BY <2>2, RestartPortal
<1>7. CASE Ask \/ TakeData \/ ReadAngle \/ GiveData \/ Send
      BY <1>7 DEF Ask, TakeData, ReadAngle, GiveData, Send, PortalInv, Whole, InPortal
<1>8. CASE Associate \/ Lose
  <2>1. PICK sta \in {"trying", "connected"} : wm' = [wm EXCEPT !.sta = sta]
        BY <1>8 DEF Associate, Lose, Associates, Loses
  <2>2. UNCHANGED <<server, at>>
        BY <1>8 DEF Associate, Lose, Associates, Loses
  <2>3. Whole(wm') /\ wm'.web = wm.web /\ wm'.cfg = wm.cfg
        BY <2>1 DEF PortalInv, Whole, Portals
  <2> QED
      BY <2>2, <2>3 DEF PortalInv, Whole, InPortal
<1>9. CASE Core0 \/ Tick \/ UNCHANGED vars
  <2>1. UNCHANGED <<wm, server, at>>
        BY <1>9 DEF Core0, TakeKalman, Skip, Measure, Missing, Stamp, Wake, Tick, vars,
                    loopVars
  <2> QED
      BY <2>1 DEF PortalInv, Whole, InPortal
<1> QED
    BY <1>2, <1>3, <1>4, <1>5, <1>6, <1>7, <1>8, <1>9 DEF Next, Core1

\* The steps of both cores keep places, mutex and rounds.
LEMMA RoundsStep == RoundsInv /\ [Next]_vars /\ ~Restarts => RoundsInv'
<1> SUFFICES ASSUME RoundsInv, [Next]_vars, ~Restarts PROVE RoundsInv'
    OBVIOUS
<1> USE DashboardAssumption DEF Sensors
<1>1. CASE Elsewhere
  <2>1. /\ UNCHANGED <<kalmanVars, xMutex, clock>>
        /\ at' \in {"loop", "lost", "reconnect", "wait"}
              \/ at' = at
        /\ at' = "loop" => at \in {"loop", "send"}
        /\ at' = "read" => at = "read"
        /\ at = "read" => at' = "read"
        /\ got' = got \/ got' = << >>
        /\ at' \in {"read", "send"} => got' = got /\ at' = at
        BY <1>1 DEF Elsewhere, Lost, Reconnect, PortalGoesOn, InPortal, Ask, Send,
               Associate, Lose, Associates, Loses,
                    RoundsInv, Places
  <2>2. at' \in {"portal", "setup"} => at' = at
        BY <2>1
  <2>3. Places' /\ MutexInv' /\ StartInv'
        BY <2>1, <2>2 DEF RoundsInv, Places, MutexInv, StartInv, kalmanVars
  <2>4. << >> \in Seq({0, 1})
        OBVIOUS
  <2>5. Numbers'
        BY <2>1, <2>4 DEF RoundsInv, Numbers, kalmanVars
  <2>6. RoundInv'
        BY <2>1 DEF RoundsInv, RoundInv, kalmanVars
  <2>7. GotInv'
        BY <2>1 DEF RoundsInv, GotInv, kalmanVars
  <2> QED
      BY <2>3, <2>5, <2>6, <2>7 DEF RoundsInv
<1>2. CASE Setup
  <2>1. /\ at = "setup" /\ at' = "loop" /\ kt' = "take" /\ kt = "none"
        /\ mpu_ok' \in SUBSET Sensors
        /\ timer' = [i \in Sensors |-> clock] /\ since' = Zeros /\ angle = Zeros
        /\ UNCHANGED <<got, cur, angle, xMutex, clock>>
        BY <1>2 DEF Setup, RoundsInv, StartInv
  <2>2. Places' /\ MutexInv' /\ StartInv'
        BY <2>1 DEF RoundsInv, Places, MutexInv, StartInv
  <2>3. Numbers'
        BY <2>1 DEF RoundsInv, Numbers, Zeros
  <2>4. cur = 1
        BY <2>1 DEF RoundsInv, MutexInv
  <2>5. RoundInv'
        BY <2>1, <2>4 DEF RoundInv, Zeros
  <2>6. GotInv'
        BY <2>1 DEF GotInv
  <2> QED
      BY <2>2, <2>3, <2>5, <2>6 DEF RoundsInv
<1>3. CASE TakeData
      BY <1>3 DEF TakeData, kalmanVars, RoundsInv, Places, Numbers, MutexInv,
                  StartInv, RoundInv, GotInv
<1>4. CASE ReadAngle
  <2>1. /\ at = "read" /\ at' = at /\ Len(got) < SENSORS
        /\ got' = Append(got, angle[Len(got) + 1])
        /\ UNCHANGED <<kalmanVars, xMutex, clock>>
        BY <1>4 DEF ReadAngle
  <2>2. Places' /\ MutexInv' /\ StartInv' /\ RoundInv'
        BY <2>1 DEF RoundsInv, Places, MutexInv, StartInv, RoundInv, kalmanVars
  <2>3. /\ got \in Seq({0, 1}) /\ Len(got) <= SENSORS
        /\ \A k \in 1 .. Len(got) : got[k] = angle[k]
        /\ angle \in [Sensors -> {0, 1}]
        BY <2>1 DEF RoundsInv, Numbers, GotInv
  <2>4. angle[Len(got) + 1] \in {0, 1}
        BY <2>1, <2>3
  <2>5. /\ got' \in Seq({0, 1}) /\ Len(got') = Len(got) + 1
        /\ \A k \in 1 .. Len(got) : got'[k] = got[k]
        /\ got'[Len(got) + 1] = angle[Len(got) + 1]
        BY <2>1, <2>3, <2>4
  <2>6. Numbers'
        BY <2>1, <2>5 DEF RoundsInv, Numbers, kalmanVars
  <2>7. GotInv'
    <3>1. \A k \in 1 .. Len(got) + 1 : k \in 1 .. Len(got) \/ k = Len(got) + 1
          BY <2>3
    <3>2. \A k \in 1 .. Len(got) + 1 : got'[k] = angle[k]
          BY <2>3, <2>5, <3>1
    <3>3. Len(got') <= SENSORS
          BY <2>1, <2>3, <2>5
    <3> QED
        BY <2>1, <2>5, <3>2, <3>3 DEF GotInv, kalmanVars
  <2> QED
      BY <2>2, <2>6, <2>7 DEF RoundsInv
<1>5. CASE GiveData
      BY <1>5 DEF GiveData, kalmanVars, RoundsInv, Places, Numbers, MutexInv,
                  StartInv, RoundInv, GotInv
<1>6. CASE TakeKalman
      BY <1>6 DEF TakeKalman, loopVars, RoundsInv, Places, Numbers, MutexInv,
                  StartInv, RoundInv, GotInv
<1>7. CASE Skip
      BY <1>7 DEF Skip, loopVars, RoundsInv, Places, Numbers, MutexInv,
                  StartInv, RoundInv, GotInv
<1>8. CASE Measure
      BY <1>8 DEF Measure, loopVars, RoundsInv, Places, Numbers, MutexInv,
                  StartInv, RoundInv, GotInv
<1>9. CASE Missing
  <2>1. /\ kt = "measure" /\ cur \notin mpu_ok /\ xMutex = "kalman" /\ cur \in Sensors
        /\ UNCHANGED <<loopVars, mpu_ok, angle, timer, clock, since>>
        BY <1>9 DEF Missing, RoundsInv, MutexInv, Numbers
  <2>2. \/ cur < SENSORS /\ kt' = "measure" /\ cur' = cur + 1 /\ xMutex' = "kalman"
        \/ cur = SENSORS /\ kt' = "delay" /\ cur' = 1 /\ xMutex' = "free"
        BY <1>9, <2>1 DEF Missing, NextSensor
  <2>3. Places' /\ MutexInv' /\ StartInv'
        BY <2>1, <2>2 DEF RoundsInv, Places, MutexInv, StartInv, loopVars
  <2>4. Numbers'
    <3>1. cur' \in Sensors
          BY <2>1, <2>2, DashboardAssumption
    <3> QED
        BY <2>1, <3>1 DEF RoundsInv, Numbers, loopVars
  <2>5. \A i \in mpu_ok : i \in Sensors /\ i # cur
        BY <2>1 DEF RoundsInv, Numbers
  <2>6. \A i, j \in mpu_ok : ((i < cur) <=> (j < cur)) <=> ((i < cur') <=> (j < cur'))
        BY <2>1, <2>2, <2>5
  <2>7. RoundInv'
        BY <2>1, <2>6 DEF RoundsInv, RoundInv
  <2>8. GotInv'
        BY <2>1, <2>2 DEF RoundsInv, GotInv, loopVars
  <2> QED
      BY <2>3, <2>4, <2>7, <2>8 DEF RoundsInv
<1>10. CASE Stamp
  <2>1. /\ kt = "stamp" /\ cur \in mpu_ok /\ xMutex = "kalman" /\ cur \in Sensors
        /\ at # "read" /\ mpu_ok \subseteq Sensors /\ angle \in [Sensors -> {0, 1}]
        /\ angle' = [angle EXCEPT ![cur] = 1 - @]
        /\ timer' = [timer EXCEPT ![cur] = clock]
        /\ since' = [since EXCEPT ![cur] = 0]
        /\ UNCHANGED <<loopVars, mpu_ok, clock>>
        BY <1>10 DEF Stamp, RoundsInv, MutexInv, Numbers
  <2>2. \/ cur < SENSORS /\ kt' = "measure" /\ cur' = cur + 1 /\ xMutex' = "kalman"
        \/ cur = SENSORS /\ kt' = "delay" /\ cur' = 1 /\ xMutex' = "free"
        BY <1>10, <2>1 DEF Stamp, NextSensor
  <2>3. Places' /\ MutexInv' /\ StartInv'
        BY <2>1, <2>2 DEF RoundsInv, Places, MutexInv, StartInv, loopVars
  <2>4. Numbers'
    <3>1. angle' \in [Sensors -> {0, 1}]
          BY <2>1
    <3>2. /\ timer' \in [Sensors -> 0 .. CLOCK_MOD - 1]
          /\ since' \in [Sensors -> 0 .. CLOCK_MOD]
          BY <2>1 DEF RoundsInv, Numbers
    <3>3. cur' \in Sensors
          BY <2>1, <2>2
    <3> QED
        BY <2>1, <3>1, <3>2, <3>3 DEF RoundsInv, Numbers, loopVars
  <2>5. ASSUME NEW i \in mpu_ok, NEW j \in mpu_ok
        PROVE  angle'[i] = IF (i < cur') <=> (j < cur') THEN angle'[j] ELSE 1 - angle'[j]
    <3>1. /\ i \in Sensors /\ j \in Sensors
          /\ angle[i] \in {0, 1} /\ angle[j] \in {0, 1} /\ angle[cur] \in {0, 1}
          BY <2>1
    <3>2. /\ angle'[i] = IF i = cur THEN 1 - angle[i] ELSE angle[i]
          /\ angle'[j] = IF j = cur THEN 1 - angle[j] ELSE angle[j]
          BY <2>1, <3>1
    <3>3. angle[i] = IF (i < cur) <=> (j < cur) THEN angle[j] ELSE 1 - angle[j]
          BY DEF RoundsInv, RoundInv
    <3>4. /\ (i < cur') <=> (cur < SENSORS /\ (i < cur \/ i = cur))
          /\ (j < cur') <=> (cur < SENSORS /\ (j < cur \/ j = cur))
          BY <2>1, <2>2, <3>1
    <3>5. cur = SENSORS => (i < cur \/ i = cur) /\ (j < cur \/ j = cur)
          BY <3>1
    <3>6. ~(cur < cur)
          BY <2>1
    <3> QED
        BY <2>2, <3>1, <3>2, <3>3, <3>4, <3>5, <3>6
  <2>6. RoundInv'
        BY <2>1, <2>5 DEF RoundInv
  <2>7. GotInv'
    <3>1. at' = "send" => \A i, j \in mpu_ok : got[i] = got[j]
          BY <2>1 DEF RoundsInv, GotInv, loopVars
    <3> QED
        BY <2>1, <3>1 DEF GotInv, loopVars
  <2> QED
      BY <2>3, <2>4, <2>6, <2>7 DEF RoundsInv
<1>11. CASE Wake
      BY <1>11 DEF Wake, loopVars, RoundsInv, Places, Numbers, MutexInv,
                  StartInv, RoundInv, GotInv
<1>12. CASE Tick
      BY <1>12 DEF Tick, loopVars, RoundsInv, Places, Numbers, MutexInv,
                  StartInv, RoundInv, GotInv
<1>13. CASE UNCHANGED vars
      BY <1>13 DEF vars, loopVars, kalmanVars, RoundsInv, Places, Numbers, MutexInv,
                  StartInv, RoundInv, GotInv
<1> QED
    BY <1>1, <1>2, <1>3, <1>4, <1>5, <1>6, <1>7, <1>8, <1>9, <1>10, <1>11, <1>12, <1>13
    DEF Next, Core0, Core1, Elsewhere, Restarts

\* micros() goes on by one, or round.
LEMMA ClockTick ==
    ASSUME NEW c \in 0 .. CLOCK_MOD - 1
    PROVE  (c + 1) % CLOCK_MOD = IF c + 1 < CLOCK_MOD THEN c + 1 ELSE 0
BY DashboardAssumption

\* micros() and the timers move together: a sample sets both, a skipped round
\* neither.
LEMMA DtStep == Inv /\ [Next]_vars /\ ~Restarts => DtInv'
<1> SUFFICES ASSUME Numbers, MutexInv, StartInv, DtInv, [Next]_vars, ~Restarts PROVE DtInv'
    BY DEF Inv, RoundsInv
<1> USE DashboardAssumption DEF Numbers
<1>1. CASE UNCHANGED <<clock, since, timer>>
      BY <1>1 DEF DtInv
<1>2. CASE Setup
      BY <1>2 DEF Setup, Zeros, DtInv
<1>3. CASE Stamp
  <2>1. /\ cur \in Sensors /\ clock' = clock /\ clock \in Nat
        /\ timer' = [timer EXCEPT ![cur] = clock]
        /\ since' = [since EXCEPT ![cur] = 0]
        BY <1>3 DEF Stamp
  <2> QED
      BY <2>1 DEF DtInv
<1>4. CASE Tick
  <2>1. /\ clock' = (clock + 1) % CLOCK_MOD /\ timer' = timer
        /\ since' = [i \in Sensors |->
                        IF since[i] < CLOCK_MOD THEN since[i] + 1 ELSE CLOCK_MOD]
        BY <1>4 DEF Tick, kalmanVars
  <2>2. clock' = IF clock + 1 < CLOCK_MOD THEN clock + 1 ELSE 0
        BY <2>1, ClockTick
  <2> SUFFICES ASSUME NEW i \in Sensors, since'[i] <= clock'
               PROVE  clock' - timer'[i] = since'[i]
      BY DEF DtInv
  <2>3. /\ since[i] \in 0 .. CLOCK_MOD /\ timer[i] \in 0 .. CLOCK_MOD - 1
        /\ since'[i] = IF since[i] < CLOCK_MOD THEN since[i] + 1 ELSE CLOCK_MOD
        BY <2>1
  <2>4. clock' = clock + 1 /\ since'[i] = since[i] + 1 /\ since[i] <= clock
        BY <2>2, <2>3
  <2>5. clock - timer[i] = since[i]
        BY <2>4 DEF DtInv
  <2> QED
      BY <2>1, <2>3, <2>4, <2>5
<1>5. CASE Lost \/ Reconnect \/ PortalGoesOn \/ Ask \/ TakeData \/ ReadAngle
           \/ GiveData \/ Send \/ Associate \/ Lose
  <2>1. UNCHANGED <<clock, since, timer>>
        BY <1>5 DEF Lost, Reconnect, PortalGoesOn, Ask, TakeData, ReadAngle,
                    GiveData, Send, Associate, Lose, Associates, Loses, kalmanVars
  <2> QED
      BY <1>1, <2>1
<1>6. CASE TakeKalman \/ Skip \/ Measure \/ Missing \/ Wake \/ UNCHANGED vars
  <2>1. UNCHANGED <<clock, since, timer>>
        BY <1>6 DEF TakeKalman, Skip, Measure, Missing, Wake, vars, kalmanVars
  <2> QED
      BY <1>1, <2>1
<1> QED
    BY <1>2, <1>3, <1>4, <1>5, <1>6 DEF Next, Core0, Core1, Restarts

\* A restart from the portal or after an upload clears the board.
LEMMA RestartStep == Restarts => Inv'
<1>1. ASSUME Restarts PROVE \E flash : Restart(flash)
      BY <1>1 DEF Restarts, PortalEnds, OtaEnd
<1> QED
    BY <1>1, RestartInv

\* Inv holds of every state the dashboard's board reaches.
THEOREM Invariance == Spec => []Inv
<1>1. Inv /\ [Next]_vars => Inv'
      BY RoundsStep, DtStep, RestartStep DEF Inv
<1> QED
    BY Initial, <1>1, PTL DEF Spec

\* The same of the portal.
THEOREM PortalInvariance == Spec => []PortalInv
<1>1. Init => PortalInv
  <2> SUFFICES ASSUME Init PROVE PortalInv
      OBVIOUS
  <2>1. PICK flash \in Credentials, accepted \in BOOLEAN : wm = Booted(flash, accepted)
        BY DEF Init
  <2>2. Whole(wm) /\ ~wm.web
        BY <2>1, BootKeeps DEF Booted
  <2> QED
      BY <2>2 DEF Init, Start, PortalInv, InPortal
<1>2. Inv /\ PortalInv /\ [Next]_vars => PortalInv'
      BY PortalStep DEF Inv, RoundsInv
<1> QED
    BY Invariance, <1>1, <1>2, PTL DEF Spec

\* A response has at most one angle per sensor.
GotShort == Len(got) <= SENSORS

\* Only ReadAngle makes it longer.
LEMMA GotStep == Numbers /\ GotShort /\ [Next]_vars => GotShort'
<1> SUFFICES ASSUME Numbers, Len(got) <= SENSORS, [Next]_vars
             PROVE  Len(got') <= SENSORS
    BY DEF GotShort
<1>1. CASE got' \in {got, << >>}
      BY <1>1, DashboardAssumption
<1>2. CASE ReadAngle
  <2>1. Len(got) < SENSORS /\ got' = Append(got, angle[Len(got) + 1])
        BY <1>2 DEF ReadAngle
  <2>2. got \in Seq({0, 1}) /\ Len(got) \in Nat
        BY DEF Numbers
  <2>3. angle[Len(got) + 1] \in {0, 1}
        BY <2>1, <2>2, DashboardAssumption DEF Numbers, Sensors
  <2> QED
      BY <2>1, <2>2, <2>3, DashboardAssumption
<1>3. CASE Setup \/ Lost \/ Reconnect \/ PortalGoesOn \/ Ask \/ TakeData
           \/ GiveData \/ Send \/ Associate \/ Lose \/ Core0 \/ Tick \/ UNCHANGED vars
  <2>1. got' \in {got, << >>}
        BY <1>3 DEF Setup, Lost, Reconnect, PortalGoesOn, Ask, TakeData, GiveData, Send,
                    Associate, Lose, Associates, Loses,
                    Core0, TakeKalman, Skip, Measure, Missing, Stamp,
                    Wake, Tick, vars, loopVars
  <2> QED
      BY <1>1, <2>1
<1>4. CASE PortalEnds \/ OtaEnd
  <2>1. got' = << >>
        BY <1>4 DEF PortalEnds, OtaEnd, Restart
  <2> QED
      BY <1>1, <2>1
<1> QED
    BY <1>2, <1>3, <1>4 DEF Next, Core1

\* Every variable keeps its type, WiFiManager's record included.
THEOREM TypeCorrect == Spec => []TypeOK
<1>1. Init => GotShort
      BY DashboardAssumption DEF Init, GotShort
<1>2. Inv /\ GotShort /\ [Next]_vars => GotShort'
      BY GotStep DEF Inv, RoundsInv
<1>3. Inv /\ PortalInv /\ GotShort => TypeOK
      BY DEF Inv, RoundsInv, Places, Numbers, PortalInv, Whole, GotShort, TypeOK
<1> QED
    BY Invariance, PortalInvariance, <1>1, <1>2, <1>3, PTL DEF Spec

\* The dashboard's server and the portal's never meet on port 80.
THEOREM PortNeverShared == Spec => []PortFree
<1>1. PortalInv => PortFree
      BY DEF PortalInv, Whole, InPortal, PortFree
<1> QED
    BY PortalInvariance, <1>1, PTL

\* handleData's response never mixes two rounds of TaskKalman.
THEOREM ResponsesOfOneRound == Spec => []OneRound
<1>1. Inv => OneRound
      BY DEF Inv, RoundsInv, GotInv, OneRound
<1> QED
    BY Invariance, <1>1, PTL

\* The Kalman filter's dt is the time since the sensor's last sample.
THEOREM DtRight == Spec => []DtIsElapsed
<1>1. Inv => DtIsElapsed
      BY DEF Inv, RoundsInv, Numbers, Sensors, DtInv, DtIsElapsed, Dt
<1> QED
    BY Invariance, <1>1, PTL

----------------------------------------------------------------------------
(***************************************************************************)
(* The other sketch on WiFiManager, PortalLed, which opens the web portal  *)
(* too and lets process() shut portals down.  wm is the manager of         *)
(* whichever specification a theorem is about.                             *)
(*                                                                         *)
(* Every portal that opens forgets what the one before was asked; and a    *)
(* station is left off only within an iteration, before the check that     *)
(* opens the portal again.  Neither needs BLOCKING or SAVE_ADDS_ROUTES.    *)
(***************************************************************************)
\* Nothing is left to replay by a portal that is open.
FreshInv == wm.cfg \/ wm.web => ~wm.connect

\* Past startConfigPortal, a station that is off has the portal.
DarkInv == place \in {"process", "reopen"} /\ wm.sta = "off" => wm.cfg

LedInv == Whole(wm) /\ place \in {"process", "check", "open", "reopen"} /\ FreshInv /\ DarkInv

\* One call of process(), whichever portal is open and whether its time is over.
LEMMA ProcessStep ==
    ASSUME NEW w, Whole(w), w.cfg \/ w.web => ~w.connect, NEW x \in Outcomes
    PROVE  LET v == process(w, x)
           IN Whole(v) /\ (v.cfg \/ v.web => ~v.connect)
<1> DEFINE u == [w EXCEPT !.web = FALSE]
           v == process(w, x)
<1>1. x.request \in Requests /\ x.last \in Requests
      BY DEF Outcomes
<1>2. \/ v = w
      \/ (w.cfg \/ w.web) /\ v = shutdownConfigPortal(u, x)
      \/ (w.cfg \/ w.web) /\ v = processConfigPortal(w, x)
      BY DEF process
<1> HIDE DEF v
<1>3. CASE w.cfg \/ w.web
  <2>1. Serving(w)
        BY <1>3 DEF Whole, Serving
  <2>2. Serving(u) /\ ~u.web
        BY <2>1 DEF Serving, Portals
  <2> HIDE DEF u
  <2>3. CASE v = shutdownConfigPortal(u, x)
        BY <1>1, <2>2, <2>3, ShutdownCloses DEF v
  <2>4. CASE v = processConfigPortal(w, x)
        BY <1>1, <1>3, <2>1, <2>4, ProcessKeeps DEF v
  <2> QED
      BY <1>2, <2>3, <2>4 DEF v
<1>4. CASE ~(w.cfg \/ w.web)
      BY <1>2, <1>4 DEF v
<1> QED
    BY <1>3, <1>4

\* setup() ends with a portal and its pages, and connected or with the
\* configuration portal.
LEMMA LedBooted ==
    ASSUME NEW flash \in Credentials, NEW accepted
    PROVE  LET v == setup(PowerOn(flash), accepted)
           IN Whole(v) /\ ~v.connect /\ (v.sta = "off" => v.cfg)
<1> DEFINE a == autoConnect(PowerOn(flash), accepted)
           b == startWebPortal(a)
           v == setup(PowerOn(flash), accepted)
<1>1. v = on(b)
  <2>1. v = on(startWebPortal(autoConnect(PowerOn(flash), accepted)))
        BY DEF setup, setupCustomRoutes
  <2> QED
      BY <2>1
<1>2. Whole(a) /\ ~a.web /\ ~a.connect /\ (a.sta = "off" => a.cfg)
      BY BootKeeps
<1> HIDE DEF a, v
<1>3. Whole(b) /\ (b.cfg \/ b.web) /\ ~b.connect /\ b.cfg = a.cfg /\ b.sta = a.sta
      BY <1>2, OpenWebKeeps
<1> HIDE DEF b
<1>4. b.server # "none"
      BY <1>3 DEF Whole
<1>5. Whole(v) /\ ~v.connect /\ v.cfg = b.cfg /\ v.sta = b.sta
      BY <1>1, <1>3, <1>4, RoutesKeep
<1> QED
    BY <1>2, <1>3, <1>5 DEF v

\* The radio's own steps leave the portals alone and no station off.
LEMMA RadioKeeps ==
    ASSUME NEW w, Whole(w), NEW sta \in {"trying", "connected"}
    PROVE  LET v == [w EXCEPT !.sta = sta]
           IN /\ Whole(v) /\ v.cfg = w.cfg /\ v.web = w.web
              /\ v.connect = w.connect /\ v.sta # "off"
BY DEF Whole, Portals

\* Every step of the sketch keeps its invariant.
LEMMA LedInductive == LedInv /\ [LedNext]_ledVars => LedInv'
<1> SUFFICES ASSUME LedInv, [LedNext]_ledVars PROVE LedInv'
    OBVIOUS
<1> USE DEF LedInv
<1>1. ASSUME Whole(wm') PROVE Whole(wm)'
      BY <1>1 DEF Whole
<1>2. CASE Process
  <2>1. PICK x \in Outcomes : wm' = process(wm, x)
        BY <1>2 DEF Process
  <2>2. Whole(wm') /\ (wm'.cfg \/ wm'.web => ~wm'.connect)
        BY <2>1, ProcessStep DEF FreshInv
  <2>3. place' = "check"
        BY <1>2 DEF Process
  <2> QED
      BY <1>1, <2>2, <2>3 DEF FreshInv, DarkInv
<1>3. CASE Reboot
  <2>1. wm.stored \in Credentials /\ "empty" \in Credentials
        BY DEF Whole, Portals, Credentials
  <2>2. PICK flash \in Credentials, accepted \in BOOLEAN :
                 wm' = setup(PowerOn(flash), accepted)
        BY <1>3, <2>1 DEF Reboot
  <2>3. Whole(wm') /\ ~wm'.connect /\ (wm'.sta = "off" => wm'.cfg)
        BY <2>2, LedBooted
  <2>4. place' = place
        BY <1>3 DEF Reboot
  <2> QED
      BY <1>1, <2>3, <2>4 DEF FreshInv, DarkInv
<1>4. CASE Check
  <2>1. wm' = wm /\ place' = IF wm.sta = "connected" THEN "reopen" ELSE "open"
        BY <1>4 DEF Check, Online
  <2> QED
      BY <1>1, <2>1 DEF FreshInv, DarkInv
<1>5. CASE Open
  <2>1. wm' = startConfigPortal(wm) /\ place' = "reopen"
        BY <1>5 DEF Open
  <2>2. /\ Whole(wm') /\ wm'.cfg
        /\ ~wm.cfg => ~wm'.connect
        /\ wm.cfg => wm' = wm
        BY <2>1, OpenKeeps
  <2> QED
      BY <1>1, <2>1, <2>2 DEF FreshInv, DarkInv
<1>6. CASE Reopen
  <2> DEFINE b == startWebPortal(wm)
  <2>1. place = "reopen" /\ place' = "process" /\ (wm' = on(b) \/ wm' = wm)
    <3>1. place = "reopen" /\ place' = "process"
          BY <1>6 DEF Reopen
    <3>2. wm' = on(startWebPortal(wm)) \/ wm' = wm
          BY <1>6 DEF Reopen, setupCustomRoutes
    <3> QED
        BY <3>1, <3>2
  <2>2. /\ Whole(b) /\ (b.cfg \/ b.web) /\ b.cfg = wm.cfg /\ b.sta = wm.sta
        /\ ~b.connect
        BY OpenWebKeeps DEF FreshInv
  <2> HIDE DEF b
  <2>3. b.server # "none"
        BY <2>2 DEF Whole
  <2>4. CASE wm' = on(b)
    <3>1. Whole(wm') /\ ~wm'.connect /\ wm'.cfg = wm.cfg /\ wm'.sta = wm.sta
          BY <2>2, <2>3, <2>4, RoutesKeep
    <3> QED
        BY <1>1, <2>1, <3>1 DEF FreshInv, DarkInv
  <2>5. CASE wm' = wm
        BY <1>1, <2>1, <2>5 DEF FreshInv, DarkInv
  <2> QED
      BY <2>1, <2>4, <2>5
<1>7. CASE LedAssociate \/ LedLose
  <2>1. PICK sta \in {"trying", "connected"} : wm' = [wm EXCEPT !.sta = sta]
        BY <1>7 DEF LedAssociate, LedLose, Associates, Loses
  <2>2. place' = place
        BY <1>7 DEF LedAssociate, LedLose, Associates, Loses
  <2>3. /\ Whole(wm') /\ wm'.cfg = wm.cfg /\ wm'.web = wm.web
        /\ wm'.connect = wm.connect /\ wm'.sta # "off"
        BY <2>1, RadioKeeps
  <2> QED
      BY <1>1, <2>2, <2>3 DEF FreshInv, DarkInv
<1>8. CASE UNCHANGED ledVars
  <2>1. wm' = wm /\ place' = place
        BY <1>8 DEF ledVars
  <2> QED
      BY <1>1, <2>1 DEF FreshInv, DarkInv
<1> QED
    BY <1>2, <1>3, <1>4, <1>5, <1>6, <1>7, <1>8 DEF LedNext, Loop

\* LedInv holds of every state the sketch reaches.
THEOREM LedInvariance == LedSpec => []LedInv
<1>1. LedInit => LedInv
  <2> SUFFICES ASSUME LedInit PROVE LedInv
      OBVIOUS
  <2>1. PICK flash \in Credentials, accepted \in BOOLEAN :
                 wm = setup(PowerOn(flash), accepted)
        BY DEF LedInit
  <2>2. Whole(wm) /\ ~wm.connect /\ (wm.sta = "off" => wm.cfg)
        BY <2>1, LedBooted
  <2> QED
      BY <2>2 DEF LedInit, LedInv, FreshInv, DarkInv
<1> QED
    BY <1>1, LedInductive, PTL DEF LedSpec

\* WiFiManager's record and loop() keep their types.
THEOREM LedTypeCorrect == LedSpec => []LedTypeOK
<1>1. LedInv => LedTypeOK
      BY DEF LedInv, Whole, LedTypeOK
<1> QED
    BY LedInvariance, <1>1, PTL

\* No portal is used without its servers, and none is left over: no null
\* pointer in process() after a shutdown or in setupCustomRoutes after a save.
THEOREM LedServersExist == LedSpec => []ServersExist
<1>1. LedInv => ServersExist
      BY DEF LedInv, Whole, ServersExist
<1> QED
    BY LedInvariance, <1>1, PTL

\* No iteration of loop() leaves a station off without the portal.
THEOREM LedNeverDark == LedSpec => []NeverDark
<1>1. LedInv => NeverDark
      BY DEF LedInv, DarkInv, NeverDark
<1> QED
    BY LedInvariance, <1>1, PTL

\* No portal replays the save of the one before.
THEOREM LedNoStaleSave == LedSpec => []NoStaleSave
<1>1. LedInv => NoStaleSave
      BY DEF LedInv, FreshInv, NoStaleSave
<1> QED
    BY LedInvariance, <1>1, PTL

=============================================================================
