----------------------------- MODULE PortalLed -----------------------------
(***************************************************************************)
(* OTA_FreeRTOS/Wifi-Esp32: a page of its own on WiFiManager's web server. *)
(* The loop is one thread; the station loses and finds its network at any  *)
(* time, also between two readings of WiFi.status() in one iteration.      *)
(***************************************************************************)
EXTENDS WiFiManager

VARIABLE place  \* where loop() is: "process", "check", "open" or "reopen"

ledVars == <<wm, place>>

\* Also the save callback.
setupCustomRoutes(w) == on(w)

\* setup(): autoConnect, then the web portal unless there is one.
setup(w, accepted) == setupCustomRoutes(startWebPortal(autoConnect(w, accepted)))

LedInit == /\ \E flash \in Credentials, accepted \in BOOLEAN :
                 wm = setup(PowerOn(flash), accepted)
           /\ place = "process"

----------------------------------------------------------------------------
(* loop() *)

Process == /\ place = "process"
           /\ \E x \in Outcomes : wm' = process(wm, x)
           /\ place' = "check"

\* A restart or an erase from the portal's pages, or an upload that ends well.
Reboot == /\ place = "process" /\ (wm.cfg \/ wm.web)
          /\ \E flash \in {wm.stored, "empty"}, accepted \in BOOLEAN :
                wm' = setup(PowerOn(flash), accepted)
          /\ UNCHANGED place

\* Mutant: only a station that is looking for its network opens the portal.
CheckLost == /\ place = "check"
             /\ place' = IF wm.sta = "trying" THEN "open" ELSE "reopen"
             /\ UNCHANGED wm

Check == /\ place = "check"
         /\ place' = IF Online(wm) THEN "reopen" ELSE "open"
         /\ UNCHANGED wm

Open == /\ place = "open"
        /\ wm' = startConfigPortal(wm)
        /\ place' = "reopen"

\* Mutant: the routes are set up only with a config portal.
ReopenBare == /\ place = "reopen"
              /\ wm' = IF Online(wm) /\ ~wm.web THEN startWebPortal(wm) ELSE wm
              /\ place' = "process"

Reopen == /\ place = "reopen"
          /\ wm' = IF Online(wm) /\ ~wm.web
                   THEN setupCustomRoutes(startWebPortal(wm))
                   ELSE wm
          /\ place' = "process"

Loop == Process \/ Check \/ Open \/ Reopen

(* The radio, from its own task *)

LedAssociate == Associates /\ UNCHANGED place

LedLose == Loses /\ UNCHANGED place

LedNext == Loop \/ Reboot \/ LedAssociate \/ LedLose

LedSpec == LedInit /\ [][LedNext]_ledVars

\* loop() runs for ever, a portal nobody uses times out, and the network takes
\* a station that keeps trying with the right credentials.
TimedOut == Process /\ wm.cfg /\ ~wm'.cfg

LedFairness == WF_ledVars(Loop) /\ SF_ledVars(TimedOut) /\ WF_ledVars(LedAssociate)

LedLiveSpec == LedSpec /\ LedFairness

----------------------------------------------------------------------------
LedTypeOK == wm \in Portals /\ place \in {"process", "check", "open", "reopen"}

\* No server is used that is not there: not by process() in the iteration that
\* follows a shutdown, nor by setupCustomRoutes after a save, a timeout or an
\* exit, whichever portals were open.
ServersExist == /\ ~wm.fault
                /\ (wm.server # "none") <=> (wm.cfg \/ wm.web)
                /\ wm.dns <=> wm.cfg

\* No iteration leaves a station that does not try by itself without a portal
\* to bring it back, wherever in the iteration the network went and came.
NeverDark == place = "process" /\ wm.sta = "off" => wm.cfg

\* A save that arrived while a portal was being shut down is not replayed by
\* the next one: process() only acts on requests of this server.
NoStaleSave == place = "process" /\ (wm.cfg \/ wm.web) => ~wm.connect

\* Without a network for good there is the portal to choose another one.
OfflineLeadsToPortal == ~Online(wm) ~> (Online(wm) \/ wm.cfg)

\* Online, the sketch's own page comes back, although the portal that opened
\* meanwhile replaced the server with the routes.
OnlineLeadsToPage ==
    Online(wm) ~> (~Online(wm) \/ wm.server \in {"custom", "repeated"})

=============================================================================
