---------------------------- MODULE WiFiManager ----------------------------
(***************************************************************************)
(* The portal of libraries/WiFiManager, configured as the two sketches     *)
(* that use it do.  The object and the radio are one record; each method   *)
(* is the function from that record before a call to the record after it.  *)
(*                                                                         *)
(* What a call cannot know is its argument x, an Outcome: which request    *)
(* handleClient finds, whether the network takes the submitted             *)
(* credentials, whether the portal's time is over, which request the last  *)
(* handleClient of a shutdown finds, and whether the radio is idle after   *)
(* it, for only then it is told to reconnect.                              *)
(***************************************************************************)

CONSTANTS BLOCKING,         \* _configPortalIsBlocking
          SAVE_ADDS_ROUTES  \* whether the save callback adds the sketch's routes

ASSUME PortalAssumption == BLOCKING \in BOOLEAN /\ SAVE_ADDS_ROUTES \in BOOLEAN

VARIABLE wm                 \* the object and the radio

\* Credentials as a client submits them: an empty name, a network that will
\* not take them, or the right ones.
Credentials == {"empty", "bad", "good"}

Requests == {"nobody", "page", "exit"} \cup Credentials

Outcomes == [request : Requests, accepted : BOOLEAN, timeout : BOOLEAN,
             last : Requests, idle : BOOLEAN]

Portals == [cfg     : BOOLEAN,      \* configPortalActive
            web     : BOOLEAN,      \* webPortalActive
            server  : {"none", "bare", "custom", "repeated"},
                                    \* the web server, and whether it has the
                                    \* sketch's routes not at all, once or more
            dns     : BOOLEAN,      \* whether there is a DNS server
            connect : BOOLEAN,
            abort   : BOOLEAN,
            ssid    : Credentials,  \* the submitted credentials
            stored  : Credentials,  \* those in flash
            sta     : {"off", "trying", "connected"},
                                    \* off: does not try by itself
            fault   : BOOLEAN]      \* a null pointer was dereferenced

PowerOn(flash) ==
    [cfg |-> FALSE, web |-> FALSE, server |-> "none", dns |-> FALSE,
     connect |-> FALSE, abort |-> FALSE, ssid |-> "empty", stored |-> flash,
     sta |-> "off", fault |-> FALSE]

Online(w) == w.sta = "connected"

----------------------------------------------------------------------------
\* dnsServer->processNextRequest() while the configuration portal is open.
processNextRequest(w) ==
    IF w.cfg /\ ~w.dns THEN [w EXCEPT !.fault = TRUE] ELSE w

\* server->handleClient() with the handlers that change anything: handleExit
\* and handleWifiSave.
handleClient(w, request) ==
    IF w.server = "none"          THEN [w EXCEPT !.fault = TRUE]
    ELSE IF request = "exit"      THEN [w EXCEPT !.abort = TRUE]
    ELSE IF request \in Credentials
         THEN [w EXCEPT !.connect = TRUE, !.ssid = request]
    ELSE w

\* The credentials go to flash whether or not the network takes them, and the
\* station goes on trying.
connectWifi(w, accepted) ==
    [w EXCEPT !.stored = w.ssid,
              !.sta = IF accepted /\ w.ssid = "good"
                      THEN "connected" ELSE "trying"]

setupConfigPortal(w) == [w EXCEPT !.server = "bare"]

startWebPortal(w) ==
    IF w.cfg \/ w.web THEN w
    ELSE [setupConfigPortal(w) EXCEPT !.connect = FALSE, !.abort = FALSE,
                                      !.web = TRUE]

\* Mutant: a station that is not connected is left alone, but no portal opens.
startConfigPortalOnlyAlone(w) ==
    IF w.cfg \/ w.web THEN w
    ELSE [setupConfigPortal(w) EXCEPT
            !.cfg = TRUE, !.dns = TRUE, !.connect = FALSE, !.abort = FALSE,
            !.sta = IF Online(w) THEN w.sta ELSE "off"]

\* Mutant: what the last portal was asked is not forgotten.
startConfigPortalRemembers(w) ==
    IF w.cfg THEN w
    ELSE [setupConfigPortal(w) EXCEPT
            !.cfg = TRUE, !.dns = TRUE,
            !.sta = IF Online(w) THEN w.sta ELSE "off"]

\* startConfigPortal, up to the blocking loop.  A station that is not connected
\* is switched off, a web portal's server is replaced.
startConfigPortal(w) ==
    IF w.cfg THEN w
    ELSE [setupConfigPortal(w) EXCEPT
            !.cfg = TRUE, !.dns = TRUE, !.connect = FALSE, !.abort = FALSE,
            !.sta = IF Online(w) THEN w.sta ELSE "off"]

\* Mutant: the DNS server is stopped before it is known which portal closes.
shutdownConfigPortalDnsFirst(w, x) ==
    IF w.web THEN [w EXCEPT !.dns = FALSE]
    ELSE LET h == handleClient(processNextRequest(w), x.last)
             s == [h EXCEPT !.server = "none"]
         IN IF ~w.cfg THEN s
            ELSE [s EXCEPT !.dns = FALSE, !.cfg = FALSE,
                           !.sta = IF @ = "off" /\ x.idle THEN "trying" ELSE @]

\* Refused while the web portal is open.  A station that was switched
\* off comes back with the user's mode; it tries again if it is idle.
shutdownConfigPortal(w, x) ==
    IF w.web THEN w
    ELSE LET h == handleClient(processNextRequest(w), x.last)
             s == [h EXCEPT !.server = "none"]
         IN IF ~w.cfg THEN s
            ELSE [s EXCEPT !.dns = FALSE, !.cfg = FALSE,
                           !.sta = IF @ = "off" /\ x.idle THEN "trying" ELSE @]

configPortalHasTimeout(w, timeout) == w.cfg /\ timeout

\* After a save that failed: a blocking portal forgets it and switches the
\* station off, the other one stays as it is.
SaveFailed(w) ==
    IF BLOCKING THEN [w EXCEPT !.ssid = "empty", !.sta = "off"] ELSE w

\* server->on(...): each call adds the sketch's routes once more.
on(w) == CASE w.server = "none" -> [w EXCEPT !.fault = TRUE]
           [] w.server = "bare" -> [w EXCEPT !.server = "custom"]
           [] OTHER             -> [w EXCEPT !.server = "repeated"]

\* _savewificallback(), before the portal it was called from is shut down.
saveCallback(w) == IF SAVE_ADDS_ROUTES THEN on(w) ELSE w

processConfigPortal(w, x) ==
    LET h == handleClient(processNextRequest(w), x.request)
        t == [h EXCEPT !.connect = FALSE]
        c == connectWifi(t, x.accepted)
    IN IF ~h.connect            THEN h
       ELSE IF h.ssid = "empty" THEN SaveFailed(t)
       ELSE IF Online(c)        THEN shutdownConfigPortal(saveCallback(c), x)
       ELSE SaveFailed(c)

process(w, x) ==
    IF ~(w.web \/ (w.cfg /\ ~BLOCKING)) THEN w
    ELSE IF configPortalHasTimeout(w, x.timeout) \/ w.abort
         THEN shutdownConfigPortal([w EXCEPT !.web = FALSE], x)
    ELSE processConfigPortal(w, x)

\* autoConnect, up to the blocking loop: with the stored credentials, or with
\* the portal.
autoConnect(w, accepted) ==
    IF accepted /\ w.stored = "good"
    THEN [w EXCEPT !.sta = "connected"]
    ELSE startConfigPortal([w EXCEPT !.sta = "trying"])

----------------------------------------------------------------------------
(* The radio, from its own task *)

Associates == /\ wm.sta = "trying" /\ wm.stored = "good"
              /\ wm' = [wm EXCEPT !.sta = "connected"]

Loses == /\ Online(wm)
         /\ wm' = [wm EXCEPT !.sta = "trying"]

=============================================================================
