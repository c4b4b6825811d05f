---------------------------- MODULE Teleop_proofs ----------------------------
(***************************************************************************)
(* What the websocket page and its connections promise, for any number of  *)
(* pages, buttons and slots.                                               *)
(***************************************************************************)
EXTENDS Teleop, SequenceTheorems, TLAPS

Words == Dirs \cup {"P"}

\* TypeOK, by what the actions change.
InputType == /\ fingers \in [Pages -> SUBSET Dirs]
             /\ mouse \in [Pages -> Dirs \cup {None}]
             /\ tap \in [Pages -> [dir : Dirs \cup {None}, next : {"down", "up"}]]

PageType == /\ timer \in [Pages -> BOOLEAN]
            /\ currentDir \in [Pages -> Words]

NetworkType == /\ ws \in [Pages -> {"connecting", "open", "waiting"}]
               /\ link \in [Pages -> Slots \cup {None}]
               /\ client \in [Slots -> {"free", "connected", "gone"}]
               /\ \A p \in Pages : link[p] # None => ws[p] = "open"

ChanType == /\ chan \in [Slots -> Seq(Words)]
            /\ \A s \in Slots : Len(chan[s]) <= INFLIGHT

RobotType == command \in Words /\ heard \in 0 .. WATCHDOG + 1

\* The interval runs on a direction, not on a stop, and on one that is held.
HeldInv == \A p \in Pages : timer[p] => currentDir[p] \in Dirs \cap Holds(p)

\* A page that is served has a slot to itself, and a free slot is empty.
SlotsAreOwn ==
    /\ \A p \in Pages : link[p] # None => client[link[p]] = "connected"
    /\ \A p, q \in Pages : link[p] = link[q] => p = q \/ link[p] = None
    /\ \A s \in Slots : client[s] = "free" => chan[s] = <<>>

\* What is known of the network.
LinksInv == NetworkType /\ SlotsAreOwn

EndsIn(q, word) == q # <<>> => q[Len(q)] = word

LastInv == \A p \in Pages : link[p] # None => EndsIn(chan[link[p]], currentDir[p])

Inv == /\ InputType /\ PageType /\ HeldInv /\ ChanType /\ LinksInv /\ LastInv
       /\ RobotType

----------------------------------------------------------------------------
(* Sending *)

\* One word more, or one less, on a sequence of words.
LEMMA WordsOnTheWay ==
    ASSUME NEW q \in Seq(Words)
    PROVE  /\ Len(q) \in Nat
           /\ \A e \in Words : /\ Append(q, e) \in Seq(Words)
                              /\ Len(Append(q, e)) = Len(q) + 1
                              /\ Append(q, e) # q
           /\ \A d, e \in Words : Append(q, d) = Append(q, e) => d = e
           /\ \A e \in Words : EndsIn(Append(q, e), e)
           /\ q # <<>> => /\ Head(q) \in Words
                          /\ Tail(q) \in Seq(Words)
                          /\ Len(Tail(q)) = Len(q) - 1
                          /\ \A e : EndsIn(q, e) => EndsIn(Tail(q), e)
<1>1. Len(q) \in Nat
      OBVIOUS
<1>2. ASSUME NEW e \in Words
      PROVE  /\ Append(q, e) \in Seq(Words)
             /\ Len(Append(q, e)) = Len(q) + 1
             /\ Append(q, e) # q
  <2>1. Append(q, e) \in Seq(Words) /\ Len(Append(q, e)) = Len(q) + 1
        OBVIOUS
  <2> QED
      BY <1>1, <2>1
<1>3. ASSUME q # <<>>
      PROVE  /\ Head(q) \in Words /\ Tail(q) \in Seq(Words)
             /\ Len(Tail(q)) = Len(q) - 1
             /\ \A e : EndsIn(q, e) => EndsIn(Tail(q), e)
  <2>1. /\ Head(q) \in Words /\ Tail(q) \in Seq(Words)
        /\ Len(Tail(q)) = Len(q) - 1
        /\ \A k \in 1 .. Len(q) - 1 : Tail(q)[k] = q[k + 1]
        BY <1>3, HeadTailProperties
  <2>2. Tail(q) # <<>> => Len(q) - 1 \in 1 .. Len(q) - 1
        BY <1>1, <2>1, EmptySeq
  <2> QED
      BY <1>1, <1>3, <2>1, <2>2 DEF EndsIn
<1>4. ASSUME NEW d \in Words, NEW e \in Words, Append(q, d) = Append(q, e)
      PROVE  d = e
  <2>1. Append(q, d)[Len(q) + 1] = d /\ Append(q, e)[Len(q) + 1] = e
        BY AppendProperties
  <2> QED
      BY <1>4, <2>1
<1>5. ASSUME NEW e \in Words PROVE EndsIn(Append(q, e), e)
      BY <1>2, <1>5, AppendProperties DEF EndsIn
<1> QED
    BY <1>1, <1>2, <1>3, <1>4, <1>5

\* The last word stays where a slot keeps what it has, and where it is emptied.
LEMMA LastKept ==
    ASSUME LastInv,
           \A q \in Pages : link'[q] # None =>
               \/ chan'[link'[q]] = <<>>
               \/ /\ link'[q] = link[q] /\ currentDir'[q] = currentDir[q]
                  /\ chan'[link'[q]] = chan[link[q]]
    PROVE  LastInv'
BY DEF LastInv, EndsIn

\* A word goes on the page's own connection, or nowhere.
LEMMA EnviarEffect ==
    ASSUME ChanType, LinksInv, NEW p \in Pages, NEW dir \in Words, enviar(p, dir)
    PROVE  /\ ChanType'
           /\ \A s \in Slots :
                 \/ chan'[s] = chan[s]
                 \/ /\ link[p] = s /\ client[s] = "connected"
                    /\ chan'[s] = Append(chan[s], dir)
           /\ link[p] # None => chan'[link[p]] = Append(chan[link[p]], dir)
<1>1. CASE ws[p] = "open" /\ link[p] # None
  <2>1. link[p] \in Slots /\ client[link[p]] = "connected"
        BY <1>1 DEF LinksInv, NetworkType, SlotsAreOwn
  <2>2. /\ Len(chan[link[p]]) < INFLIGHT
        /\ chan' = [chan EXCEPT ![link[p]] = Append(@, dir)]
        BY <1>1 DEF enviar
  <2>3. \A s \in Slots : chan'[s] = IF s = link[p] THEN Append(chan[s], dir) ELSE chan[s]
        BY <2>1, <2>2 DEF ChanType
  <2>4. /\ Append(chan[link[p]], dir) \in Seq(Words)
        /\ Len(Append(chan[link[p]], dir)) <= INFLIGHT
    <3>1. chan[link[p]] \in Seq(Words)
          BY <2>1 DEF ChanType
    <3> QED
        BY <2>2, <3>1, WordsOnTheWay, TeleopAssumption
  <2>5. ChanType'
        BY <2>1, <2>2, <2>3, <2>4 DEF ChanType
  <2> QED
      BY <2>1, <2>3, <2>5
<1>2. CASE ~(ws[p] = "open" /\ link[p] # None)
      BY <1>2 DEF enviar, ChanType, LinksInv, NetworkType
<1> QED
    BY <1>1, <1>2

\* The last word on the page's connection is then this one; the other connections
\* and what their pages said last are as before.
LEMMA EnviarLast ==
    ASSUME ChanType, LinksInv, LastInv, NEW p \in Pages, NEW dir \in Words,
           enviar(p, dir), link' = link,
           \A q \in Pages : currentDir'[q] = IF q = p THEN dir ELSE currentDir[q]
    PROVE  LastInv'
<1> SUFFICES ASSUME NEW q \in Pages, link[q] # None
             PROVE  EndsIn(chan'[link[q]], currentDir'[q])
    BY DEF LastInv
<1>1. link[q] \in Slots /\ chan[link[q]] \in Seq(Words)
      BY DEF LinksInv, NetworkType, ChanType
<1>2. CASE q = p
  <2>1. chan'[link[q]] = Append(chan[link[q]], dir)
        BY <1>2, EnviarEffect
  <2> QED
      BY <1>1, <1>2, <2>1, WordsOnTheWay
<1>3. CASE q # p
  <2>1. link[p] # link[q]
        BY <1>3 DEF LinksInv, SlotsAreOwn
  <2>2. chan'[link[q]] = chan[link[q]]
        BY <1>1, <2>1, EnviarEffect
  <2> QED
      BY <1>3, <2>2 DEF LastInv
<1> QED
    BY <1>2, <1>3

\* cmd leaves the page with the last direction, and an interval for it unless it
\* is the stop.
LEMMA CmdEffect ==
    ASSUME PageType, NEW p \in Pages, NEW dir \in Words, cmd(p, dir)
    PROVE  /\ PageType'
           /\ \A q \in Pages :
                 /\ timer'[q] = IF q = p THEN dir # "P" ELSE timer[q]
                 /\ currentDir'[q] = IF q = p THEN dir ELSE currentDir[q]
<1>1. /\ timer' = [timer EXCEPT ![p] = (dir # "P")]
      /\ currentDir' = [currentDir EXCEPT ![p] = dir]
      BY DEF cmd
<1>2. (dir # "P") \in BOOLEAN
      OBVIOUS
<1>3. \A q \in Pages : timer'[q] = IF q = p THEN (dir # "P") ELSE timer[q]
      BY <1>1 DEF PageType
<1>4. \A q \in Pages : currentDir'[q] = IF q = p THEN dir ELSE currentDir[q]
      BY <1>1 DEF PageType
<1>5. timer' \in [Pages -> BOOLEAN]
      BY <1>1, <1>2 DEF PageType
<1>6. currentDir' \in [Pages -> Words]
      BY <1>1 DEF PageType
<1> QED
    BY <1>3, <1>4, <1>5, <1>6 DEF PageType

----------------------------------------------------------------------------
(* The page *)

\* Every handler of the page sends a stop, or the direction of a button that is
\* held from then on, and leaves the other pages alone.
LEMMA HandlerEffect ==
    ASSUME InputType, NEW p \in Pages, User(p) \/ Browser(p)
    PROVE  /\ InputType' /\ UNCHANGED <<network, robot>>
           /\ \A q \in Pages \ {p} : Holds(q)' = Holds(q)
           /\ \E dir \in Words : cmd(p, dir) /\ (dir # "P" => dir \in Dirs \cap Holds(p)')
<1> USE DEF InputType, Holds, Words
<1>1. ASSUME NEW d \in Dirs, touchstart(p, d)
      PROVE  /\ InputType' /\ UNCHANGED <<network, robot>>
             /\ \A q \in Pages \ {p} : Holds(q)' = Holds(q)
             /\ cmd(p, d) /\ d \in Holds(p)'
      BY <1>1 DEF touchstart
<1>2. ASSUME NEW d \in Dirs, touchend(p, d)
      PROVE  /\ InputType' /\ UNCHANGED <<network, robot>>
             /\ \A q \in Pages \ {p} : Holds(q)' = Holds(q)
             /\ cmd(p, "P")
      BY <1>2 DEF touchend
<1>3. ASSUME NEW d \in Dirs, mousedown(p, d)
      PROVE  /\ InputType' /\ UNCHANGED <<network, robot>>
             /\ \A q \in Pages \ {p} : Holds(q)' = Holds(q)
             /\ cmd(p, d) /\ d \in Holds(p)'
      BY <1>3 DEF mousedown
<1>4. ASSUME mouseup(p)
      PROVE  /\ InputType' /\ UNCHANGED <<network, robot>>
             /\ \A q \in Pages \ {p} : Holds(q)' = Holds(q)
             /\ cmd(p, "P")
      BY <1>4 DEF mouseup
<1>5. ASSUME stop(p)
      PROVE  /\ InputType' /\ UNCHANGED <<network, robot>>
             /\ \A q \in Pages \ {p} : Holds(q)' = Holds(q)
             /\ cmd(p, "P")
      BY <1>5 DEF stop, input
<1>6. ASSUME tapDown(p)
      PROVE  /\ InputType' /\ UNCHANGED <<network, robot>>
             /\ \A q \in Pages \ {p} : Holds(q)' = Holds(q)
             /\ cmd(p, tap[p].dir) /\ tap[p].dir \in Dirs \cap Holds(p)'
      BY <1>6 DEF tapDown
<1>7. ASSUME tapUp(p)
      PROVE  /\ InputType' /\ UNCHANGED <<network, robot>>
             /\ \A q \in Pages \ {p} : Holds(q)' = Holds(q)
             /\ cmd(p, "P")
      BY <1>7 DEF tapUp, NoTap
<1> HIDE DEF InputType, Holds
<1> QED
    BY <1>1, <1>2, <1>3, <1>4, <1>5, <1>6, <1>7 DEF User, Browser

\* The handlers keep the invariant, and what they send is held.
LEMMA HandlerStep ==
    ASSUME Inv, NEW p \in Pages, User(p) \/ Browser(p)
    PROVE  /\ InputType' /\ PageType' /\ HeldInv' /\ ChanType' /\ LastInv'
           /\ UNCHANGED <<network, robot>>
           /\ \A s \in Slots :
                 \/ chan'[s] = chan[s]
                 \/ /\ link[p] = s /\ client[s] = "connected"
                    /\ \E d \in Words : /\ chan'[s] = Append(chan[s], d)
                                        /\ d \in Dirs => d \in Holds(p)'
<1>1. /\ InputType' /\ UNCHANGED <<network, robot>>
      /\ \A q \in Pages \ {p} : Holds(q)' = Holds(q)
      BY HandlerEffect DEF Inv
<1>2. PICK dir \in Words : cmd(p, dir) /\ (dir # "P" => dir \in Dirs \cap Holds(p)')
      BY HandlerEffect DEF Inv
<1>3. /\ PageType'
      /\ \A q \in Pages :
            /\ timer'[q] = IF q = p THEN dir # "P" ELSE timer[q]
            /\ currentDir'[q] = IF q = p THEN dir ELSE currentDir[q]
      BY <1>2, CmdEffect DEF Inv
<1>4. HeldInv'
      BY <1>1, <1>2, <1>3 DEF Inv, HeldInv
<1>5. enviar(p, dir)
      BY <1>2 DEF cmd
<1>6. "P" \notin Dirs
      BY TeleopAssumption
<1>7. LastInv'
      BY <1>1, <1>3, <1>5, EnviarLast DEF Inv, network
<1> QED
    BY <1>1, <1>2, <1>3, <1>4, <1>5, <1>6, <1>7, EnviarEffect DEF Inv

\* So does the interval.
LEMMA RepeatStep ==
    ASSUME Inv, NEW p \in Pages, repeat(p)
    PROVE  /\ UNCHANGED <<input, page, network, robot>> /\ ChanType' /\ LastInv'
           /\ \A s \in Slots :
                 \/ chan'[s] = chan[s]
                 \/ /\ link[p] = s /\ client[s] = "connected"
                    /\ chan'[s] = Append(chan[s], currentDir[p])
           /\ currentDir[p] \in Dirs \cap Holds(p)
<1>1. currentDir[p] \in Words /\ enviar(p, currentDir[p])
      BY DEF repeat, Inv, PageType
<1>2. currentDir[p] \in Dirs \cap Holds(p)
      BY DEF repeat, Inv, HeldInv
<1>3. LastInv'
      BY <1>1, EnviarLast DEF repeat, Inv, page, network
<1> QED
    BY <1>1, <1>2, <1>3, EnviarEffect DEF repeat, Inv

----------------------------------------------------------------------------
(* The connections *)

\* The end of a connection leaves its slot without messages.
LEMMA DisconnectEffect ==
    ASSUME ChanType, RobotType, NEW s \in Slots, disconnect(s)
    PROVE  /\ ChanType' /\ command' \in Words
           /\ \A t \in Slots : chan'[t] = IF t = s THEN <<>> ELSE chan[t]
<1>1. \A t \in Slots : chan'[t] = IF t = s THEN <<>> ELSE chan[t]
      BY DEF disconnect, ChanType
<1>2. <<>> \in Seq(Words) /\ Len(<<>>) = 0
      OBVIOUS
<1>3. ChanType'
  <2>1. chan' \in [Slots -> Seq(Words)]
        BY <1>2 DEF disconnect, ChanType
  <2>2. \A t \in Slots : Len(chan'[t]) <= INFLIGHT
        BY <1>1, <1>2, TeleopAssumption DEF ChanType
  <2> QED
      BY <2>1, <2>2 DEF ChanType
<1>4. command' \in Words
      BY DEF disconnect, RobotType, Words
<1> QED
    BY <1>1, <1>3, <1>4

\* A page that gets a slot is the only one there, and finds it empty.
LEMMA OpenStep ==
    ASSUME Inv, NEW p \in Pages, onOpen(p)
    PROVE  /\ UNCHANGED <<input, page, heard>>
           /\ ChanType' /\ LinksInv' /\ LastInv' /\ RobotType'
           /\ \A s \in Slots : chan'[s] \in {chan[s], <<>>}
<1>1. PICK s \in Slots :
         /\ \/ client[s] = "free" /\ UNCHANGED <<chan, command>>
            \/ client[s] = "gone" /\ disconnect(s)
         /\ client' = [client EXCEPT ![s] = "connected"]
         /\ link' = [link EXCEPT ![p] = s]
      BY DEF onOpen
<1>2. /\ ws[p] = "connecting" /\ ws' = [ws EXCEPT ![p] = "open"]
      /\ UNCHANGED <<input, page, heard>>
      BY DEF onOpen
<1>3. /\ ChanType' /\ RobotType' /\ \A t \in Slots : chan'[t] \in {chan[t], <<>>}
      /\ \A t \in Slots : chan'[t] = IF t = s THEN <<>> ELSE chan[t]
  <2>1. CASE client[s] = "free" /\ UNCHANGED <<chan, command>>
        BY <1>2, <2>1 DEF Inv, ChanType, RobotType, LinksInv, SlotsAreOwn
  <2>2. CASE client[s] = "gone" /\ disconnect(s)
        BY <1>2, <2>2, DisconnectEffect DEF Inv, RobotType
  <2> QED
      BY <1>1, <2>1, <2>2
<1>4. /\ \A q \in Pages : link'[q] = IF q = p THEN s ELSE link[q]
      /\ \A q \in Pages : ws'[q] = IF q = p THEN "open" ELSE ws[q]
      /\ \A t \in Slots : client'[t] = IF t = s THEN "connected" ELSE client[t]
      BY <1>1, <1>2 DEF Inv, LinksInv, NetworkType
<1>5. s # None
      BY TeleopAssumption
<1>6. NetworkType'
      BY <1>1, <1>2, <1>4, <1>5 DEF Inv, LinksInv, NetworkType
<1>7. \A q \in Pages : link[q] # s
  <2>1. client[s] # "connected"
        BY <1>1
  <2> QED
      BY <1>5, <2>1 DEF Inv, LinksInv, SlotsAreOwn
<1>8. SlotsAreOwn'
  <2>1. \A q \in Pages : link'[q] # None => client'[link'[q]] = "connected"
        BY <1>4 DEF Inv, LinksInv, NetworkType, SlotsAreOwn
  <2>2. \A q, r \in Pages : link'[q] = link'[r] => q = r \/ link'[q] = None
        BY <1>4, <1>7 DEF Inv, LinksInv, SlotsAreOwn
  <2>3. \A t \in Slots : client'[t] = "free" => chan'[t] = <<>>
        BY <1>3, <1>4 DEF Inv, LinksInv, SlotsAreOwn
  <2> QED
      BY <2>1, <2>2, <2>3 DEF SlotsAreOwn
<1>9. LastInv'
  <2>1. \A q \in Pages : link'[q] # None =>
            \/ chan'[link'[q]] = <<>>
            \/ /\ link'[q] = link[q] /\ currentDir'[q] = currentDir[q]
               /\ chan'[link'[q]] = chan[link[q]]
        BY <1>2, <1>3, <1>4 DEF Inv, LinksInv, NetworkType, page
  <2> QED
      BY <2>1, LastKept DEF Inv
<1> QED
    BY <1>2, <1>3, <1>6, <1>8, <1>9 DEF LinksInv

\* The slots after the page's end of a connection: only its own may have changed.
LEMMA EndedSlots ==
    ASSUME NetworkType, NEW p \in Pages
    PROVE  /\ Ended(p) \in [Slots -> {"free", "connected", "gone"}]
           /\ \A t \in Slots : Ended(p)[t] = IF t = link[p] THEN "gone" ELSE client[t]
BY DEF NetworkType, Ended

\* A page that gives its slot up leaves the others theirs.
LEMMA SlotGivenUp ==
    ASSUME LinksInv, NEW p \in Pages, client' \in {client, Ended(p)}, chan' = chan,
           \A q \in Pages : link'[q] = IF q = p THEN None ELSE link[q]
    PROVE  SlotsAreOwn'
<1> USE DEF LinksInv, NetworkType, SlotsAreOwn
<1>1. \A t \in Slots : client'[t] \in {client[t], IF t = link[p] THEN "gone" ELSE client[t]}
      BY EndedSlots
<1>2. \A q \in Pages : link'[q] # None => client'[link'[q]] = "connected"
  <2> SUFFICES ASSUME NEW q \in Pages, link'[q] # None
               PROVE  client'[link'[q]] = "connected"
      OBVIOUS
  <2>1. q # p /\ link'[q] = link[q] /\ link[q] \in Slots /\ link[q] # link[p]
        OBVIOUS
  <2> QED
      BY <1>1, <2>1
<1>3. \A q, r \in Pages : link'[q] = link'[r] => q = r \/ link'[q] = None
      OBVIOUS
<1>4. \A t \in Slots : client'[t] = "free" => chan'[t] = <<>>
      BY <1>1
<1> QED
    BY <1>2, <1>3, <1>4

\* Whatever else a page's socket does, it only gives its slot up.
LEMMA SocketStep ==
    ASSUME Inv, NEW p \in Pages, refused(p) \/ onClose(p) \/ initWebSocket(p)
    PROVE  UNCHANGED <<input, page, chan, robot>> /\ LinksInv' /\ LastInv'
<1>1. CASE refused(p) \/ initWebSocket(p)
  <2>1. /\ UNCHANGED <<input, page, link, client, chan, robot>> /\ ws[p] # "open"
        /\ ws' \in [Pages -> {"connecting", "open", "waiting"}]
        /\ \A q \in Pages : q # p => ws'[q] = ws[q]
        BY <1>1 DEF refused, initWebSocket, Inv, LinksInv, NetworkType
  <2>2. LinksInv'
        BY <2>1 DEF Inv, LinksInv, NetworkType, SlotsAreOwn
  <2>3. LastInv'
        BY <2>1 DEF Inv, LastInv, page
  <2> QED
      BY <2>1, <2>2, <2>3
<1>2. CASE onClose(p)
  <2>1. /\ UNCHANGED <<input, page, chan, robot>> /\ client' \in {client, Ended(p)}
        /\ \A q \in Pages : link'[q] = IF q = p THEN None ELSE link[q]
        /\ \A q \in Pages : ws'[q] = IF q = p THEN "waiting" ELSE ws[q]
        /\ link' \in [Pages -> Slots \cup {None}]
        /\ ws' \in [Pages -> {"connecting", "open", "waiting"}]
        BY <1>2 DEF onClose, Inv, LinksInv, NetworkType
  <2>2. client' \in [Slots -> {"free", "connected", "gone"}]
        BY <2>1, EndedSlots DEF Inv, LinksInv, NetworkType
  <2>3. NetworkType'
        BY <2>1, <2>2 DEF Inv, LinksInv, NetworkType
  <2>4. SlotsAreOwn'
        BY <2>1, SlotGivenUp DEF Inv
  <2>5. LastInv'
        BY <2>1, LastKept DEF Inv, page
  <2> QED
      BY <2>1, <2>3, <2>4, <2>5 DEF LinksInv
<1> QED
    BY <1>1, <1>2

\* A page that is loaded again has no button, no interval and no slot.
LEMMA LoadStep ==
    ASSUME Inv, NEW p \in Pages, onLoad(p)
    PROVE  /\ UNCHANGED <<chan, robot>>
           /\ InputType' /\ PageType' /\ HeldInv' /\ LinksInv' /\ LastInv'
<1>1. InputType' /\ PageType'
      BY DEF onLoad, Inv, InputType, PageType, NoTap, Words
<1>2. HeldInv'
  <2>1. \A q \in Pages : timer'[q] => timer[q] /\ q # p
        BY DEF onLoad, Inv, PageType
  <2>2. \A q \in Pages \ {p} : Holds(q)' = Holds(q) /\ currentDir'[q] = currentDir[q]
        BY DEF onLoad, Inv, InputType, PageType, Holds
  <2> QED
      BY <2>1, <2>2 DEF Inv, HeldInv
<1>3. /\ \A q \in Pages : link'[q] = IF q = p THEN None ELSE link[q]
      /\ \A q \in Pages : ws'[q] = IF q = p THEN "connecting" ELSE ws[q]
      BY DEF onLoad, Inv, LinksInv, NetworkType
<1>4. client' = Ended(p) /\ client' \in [Slots -> {"free", "connected", "gone"}]
      BY EndedSlots DEF onLoad, Inv, LinksInv
<1>5. NetworkType'
  <2>1. link' \in [Pages -> Slots \cup {None}]
        BY DEF onLoad, Inv, LinksInv, NetworkType
  <2>2. ws' \in [Pages -> {"connecting", "open", "waiting"}]
        BY DEF onLoad, Inv, LinksInv, NetworkType
  <2> QED
      BY <1>3, <1>4, <2>1, <2>2 DEF Inv, LinksInv, NetworkType
<1>6. chan' = chan /\ UNCHANGED robot
      BY DEF onLoad
<1>7. SlotsAreOwn'
      BY <1>3, <1>4, <1>6, SlotGivenUp DEF Inv
<1>8. LastInv'
  <2>1. \A q \in Pages \ {p} : currentDir'[q] = currentDir[q]
        BY DEF onLoad, Inv, PageType
  <2> QED
      BY <1>3, <1>6, <2>1, LastKept DEF Inv
<1> QED
    BY <1>1, <1>2, <1>5, <1>6, <1>7, <1>8 DEF LinksInv

\* A word arrives, or is dropped at the mutex.
LEMMA ArrivalStep ==
    ASSUME Inv, NEW s \in Slots, text(s) \/ textDropped(s)
    PROVE  /\ UNCHANGED <<input, page, network>>
           /\ ChanType' /\ LinksInv' /\ LastInv' /\ RobotType'
           /\ \A t \in Slots : chan'[t] = chan[t] \/ Len(chan'[t]) < Len(chan[t])
<1>1. /\ client[s] # "free" /\ chan[s] # <<>>
      /\ chan' = [chan EXCEPT ![s] = Tail(@)] /\ UNCHANGED <<input, page, network>>
      BY DEF text, textDropped
<1>2. \A t \in Slots : chan'[t] = IF t = s THEN Tail(chan[s]) ELSE chan[t]
      BY <1>1 DEF Inv, ChanType
<1>3. /\ Head(chan[s]) \in Words /\ Tail(chan[s]) \in Seq(Words)
      /\ Len(Tail(chan[s])) = Len(chan[s]) - 1 /\ Len(chan[s]) \in Nat
      BY <1>1, WordsOnTheWay DEF Inv, ChanType
<1>4. ChanType'
  <2>1. chan' \in [Slots -> Seq(Words)]
        BY <1>1, <1>3 DEF Inv, ChanType
  <2>2. \A t \in Slots : Len(chan'[t]) <= INFLIGHT
    <3>1. Len(chan[s]) <= INFLIGHT /\ INFLIGHT \in Nat
          BY TeleopAssumption DEF Inv, ChanType
    <3>2. Len(Tail(chan[s])) <= INFLIGHT
          BY <1>3, <3>1
    <3> QED
        BY <1>2, <3>2 DEF Inv, ChanType
  <2> QED
      BY <2>1, <2>2 DEF ChanType
<1>5. LinksInv'
      BY <1>1, <1>2 DEF Inv, LinksInv, NetworkType, SlotsAreOwn, network
<1>6. RobotType'
      BY <1>3, TeleopAssumption DEF text, textDropped, robot, Inv, RobotType
<1>7. LastInv'
  <2> SUFFICES ASSUME NEW q \in Pages, link[q] # None
               PROVE  EndsIn(chan'[link[q]], currentDir[q])
      BY <1>1 DEF LastInv, network, page
  <2>1. link[q] \in Slots /\ EndsIn(chan[link[q]], currentDir[q])
        BY DEF Inv, LinksInv, NetworkType, LastInv
  <2>2. EndsIn(chan[s], currentDir[q]) => EndsIn(Tail(chan[s]), currentDir[q])
        BY <1>1, WordsOnTheWay DEF Inv, ChanType
  <2> QED
      BY <1>2, <2>1, <2>2
<1> QED
    BY <1>1, <1>2, <1>3, <1>4, <1>5, <1>6, <1>7

\* The server ends a connection, because it has ended at the page or because it
\* is lost; or the robot restarts.  A slot is emptied before it is free.
LEMMA ServerEndStep ==
    ASSUME Inv, NEW s \in Slots, disconnected(s) \/ dropped(s)
    PROVE  /\ UNCHANGED <<input, page>>
           /\ ChanType' /\ LinksInv' /\ LastInv' /\ RobotType'
           /\ \A t \in Slots : chan'[t] \in {chan[t], <<>>}
<1>1. /\ disconnect(s) /\ client' = [client EXCEPT ![s] = "free"]
      /\ UNCHANGED <<input, page, ws, heard>>
      BY DEF disconnected, dropped
<1>2. /\ ChanType' /\ command' \in Words
      /\ \A t \in Slots : chan'[t] = IF t = s THEN <<>> ELSE chan[t]
      BY <1>1, DisconnectEffect DEF Inv
<1>3. RobotType'
      BY <1>1, <1>2 DEF Inv, RobotType
<1>4. /\ link' \in [Pages -> Slots \cup {None}]
      /\ \A q \in Pages : link'[q] = IF link[q] = s THEN None ELSE link[q]
  <2>1. CASE disconnected(s)
    <3>1. link' = link /\ client[s] = "gone"
          BY <2>1 DEF disconnected
    <3>2. \A q \in Pages : link[q] # s
          BY <3>1, TeleopAssumption DEF Inv, LinksInv, SlotsAreOwn
    <3> QED
        BY <3>1, <3>2 DEF Inv, LinksInv, NetworkType
  <2>2. CASE dropped(s)
        BY <2>2 DEF dropped, Inv, LinksInv, NetworkType
  <2> QED
      BY <2>1, <2>2
<1>5. \A t \in Slots : client'[t] = IF t = s THEN "free" ELSE client[t]
      BY <1>1 DEF Inv, LinksInv, NetworkType
<1>6. NetworkType'
      BY <1>1, <1>4 DEF Inv, LinksInv, NetworkType
<1>7. SlotsAreOwn'
      BY <1>2, <1>4, <1>5 DEF Inv, LinksInv, NetworkType, SlotsAreOwn
<1>8. LastInv'
      BY <1>1, <1>2, <1>4, LastKept DEF Inv, LinksInv, NetworkType, page
<1> QED
    BY <1>1, <1>2, <1>3, <1>6, <1>7, <1>8 DEF LinksInv

LEMMA RestartStep ==
    ASSUME Inv, restart
    PROVE  /\ UNCHANGED <<input, page>>
           /\ ChanType' /\ LinksInv' /\ LastInv' /\ RobotType'
           /\ \A t \in Slots : chan'[t] = <<>>
<1>1. /\ UNCHANGED <<input, page, ws>> /\ \A t \in Slots : chan'[t] = <<>>
      /\ \A q \in Pages : link'[q] = None
      BY DEF restart
<1>2. ChanType'
  <2>1. <<>> \in Seq(Words) /\ Len(<<>>) = 0
        OBVIOUS
  <2>2. chan' \in [Slots -> Seq(Words)]
        BY <2>1 DEF restart
  <2> QED
      BY <1>1, <2>1, <2>2, TeleopAssumption DEF ChanType
<1>3. LinksInv'
      BY <1>1 DEF restart, Inv, LinksInv, NetworkType, SlotsAreOwn
<1>4. LastInv'
      BY <1>1 DEF LastInv
<1>5. RobotType'
      BY TeleopAssumption DEF restart, RobotType, Words
<1> QED
    BY <1>1, <1>2, <1>3, <1>4, <1>5

----------------------------------------------------------------------------
LEMMA Initial == Init => Inv
<1> SUFFICES ASSUME Init PROVE Inv
    OBVIOUS
<1> USE TeleopAssumption DEF Init
<1>1. InputType
      BY DEF InputType, NoTap
<1>2. PageType /\ HeldInv
      BY DEF PageType, HeldInv, Words
<1>3. ChanType
  <2>1. <<>> \in Seq(Words) /\ Len(<<>>) = 0
        OBVIOUS
  <2> QED
      BY <2>1 DEF ChanType
<1>4. LinksInv
      BY DEF LinksInv, NetworkType, SlotsAreOwn
<1>5. RobotType
      BY DEF RobotType, Words
<1>6. LastInv
      BY DEF LastInv
<1> QED
    BY <1>1, <1>2, <1>3, <1>4, <1>5, <1>6 DEF Inv

\* Every step keeps the invariant.
LEMMA Inductive == Inv /\ [Next]_vars => Inv'
<1> SUFFICES ASSUME Inv, [Next]_vars PROVE Inv'
    OBVIOUS
<1> USE DEF input, page, robot
<1>1. ASSUME UNCHANGED input PROVE InputType'
      BY <1>1 DEF Inv, InputType
<1>2. ASSUME UNCHANGED <<input, page>> PROVE PageType' /\ HeldInv'
      BY <1>2 DEF Inv, PageType, HeldInv, Holds
<1>3. ASSUME UNCHANGED robot PROVE RobotType'
      BY <1>3 DEF Inv, RobotType
<1>4. ASSUME UNCHANGED chan PROVE ChanType'
      BY <1>4 DEF Inv, ChanType
<1>5. ASSUME UNCHANGED network,
             \A s \in Slots : chan'[s] = chan[s] \/ client[s] = "connected"
      PROVE  LinksInv'
      BY <1>5 DEF Inv, LinksInv, NetworkType, SlotsAreOwn, network
<1>5a. ASSUME UNCHANGED <<page, network, chan>> PROVE LastInv'
      BY <1>5a DEF Inv, LastInv, network
<1> HIDE DEF input, page, robot
<1>6. CASE \E p \in Pages : User(p) \/ Browser(p)
      BY <1>6, <1>3, <1>5, HandlerStep DEF Inv
<1>7. CASE \E p \in Pages : repeat(p)
      BY <1>7, <1>1, <1>2, <1>3, <1>5, RepeatStep DEF Inv
<1>8. CASE \E p \in Pages : onOpen(p)
      BY <1>8, <1>1, <1>2, OpenStep DEF Inv
<1>9. CASE \E p \in Pages : refused(p) \/ onClose(p) \/ initWebSocket(p)
      BY <1>9, <1>1, <1>2, <1>3, <1>4, SocketStep DEF Inv
<1>10. CASE \E p \in Pages : onLoad(p)
      BY <1>10, <1>3, <1>4, LoadStep DEF Inv
<1>11. CASE \E s \in Slots : text(s) \/ textDropped(s)
      BY <1>11, <1>1, <1>2, ArrivalStep DEF Inv
<1>12. CASE \E s \in Slots : disconnected(s) \/ dropped(s)
      BY <1>12, <1>1, <1>2, ServerEndStep DEF Inv
<1>12a. CASE restart
      BY <1>12a, <1>1, <1>2, RestartStep DEF Inv
<1>13. CASE Tick
  <2>1. UNCHANGED <<input, page, network, chan, command>>
        BY <1>13 DEF Tick
  <2>2. RobotType'
        BY <1>13, <2>1, TeleopAssumption DEF Tick, Inv, RobotType
  <2> QED
      BY <2>1, <2>2, <1>1, <1>2, <1>4, <1>5, <1>5a DEF Inv
<1>14. CASE UNCHANGED vars
      BY <1>14, <1>1, <1>2, <1>3, <1>4, <1>5, <1>5a DEF vars, Inv
<1> QED
    BY <1>6, <1>7, <1>8, <1>9, <1>10, <1>11, <1>12, <1>13, <1>14, <1>12a
    DEF Next

\* The inductive invariant holds.
THEOREM Invariance == Spec => []Inv
<1> QED
    BY Initial, Inductive, PTL DEF Spec

\* Every variable keeps its type, for any number of pages and slots.
THEOREM TypeCorrect == Spec => []TypeOK
<1>1. Inv => TypeOK
      BY DEF Inv, TypeOK, InputType, PageType, ChanType, LinksInv, NetworkType,
             RobotType, Words
<1> QED
    BY <1>1, Invariance, PTL

\* A page repeats a direction only while that very button is held.
THEOREM RepeatsHeld == Spec => []RepeatsOnlyWhatIsHeld
<1>1. Inv => RepeatsOnlyWhatIsHeld
      BY DEF Inv, HeldInv, RepeatsOnlyWhatIsHeld
<1> QED
    BY <1>1, Invariance, PTL

\* On every connection the robot serves, it is told last what the page did last.
THEOREM LastWordCounts == Spec => []LastWord
<1>1. Inv => LastWord
      BY DEF Inv, LastInv, EndsIn, LastWord
<1> QED
    BY <1>1, Invariance, PTL

\* What is put under way is a direction that is held on that connection's page.
THEOREM OnlyHeldIsSent == Spec => SentIsHeld
<1> DEFINE Sent == \A s \in Slots, d \in Dirs : chan'[s] = Append(chan[s], d) =>
                      \E p \in Pages : link[p] = s /\ d \in Holds(p)'
<1>1. Inv /\ [Next]_vars => [Sent]_vars
  <2> SUFFICES ASSUME Inv, Next, NEW s \in Slots, NEW d \in Dirs,
                      chan'[s] = Append(chan[s], d)
               PROVE  \E p \in Pages : link[p] = s /\ d \in Holds(p)'
      OBVIOUS
  <2>1. chan[s] \in Seq(Words) /\ d \in Words
        BY DEF Inv, ChanType, Words
  <2>2. /\ Len(chan'[s]) = Len(chan[s]) + 1 /\ Len(chan[s]) \in Nat
        /\ chan'[s] # chan[s] /\ chan'[s] # <<>>
        BY <2>1, WordsOnTheWay
  <2>3. \A e \in Words : chan'[s] = Append(chan[s], e) => e = d
        BY <2>1, WordsOnTheWay
  <2>4. CASE \E p \in Pages : User(p) \/ Browser(p)
    <3>1. PICK p \in Pages : User(p) \/ Browser(p)
          BY <2>4
    <3>2. PICK e \in Words : /\ link[p] = s /\ chan'[s] = Append(chan[s], e)
                             /\ e \in Dirs => e \in Holds(p)'
          BY <3>1, <2>2, HandlerStep
    <3> QED
        BY <3>2, <2>3
  <2>5. CASE \E p \in Pages : repeat(p)
    <3>1. PICK p \in Pages : repeat(p)
          BY <2>5
    <3>2. link[p] = s /\ chan'[s] = Append(chan[s], currentDir[p])
          BY <3>1, <2>2, RepeatStep
    <3>3. currentDir[p] = d
          BY <3>2, <2>3 DEF Inv, PageType
    <3>4. currentDir[p] \in Holds(p) /\ UNCHANGED input
          BY <3>1, RepeatStep
    <3> QED
        BY <3>2, <3>3, <3>4 DEF Holds, input
  <2>6. CASE \E p \in Pages : onOpen(p)
        BY <2>6, <2>2, OpenStep
  <2>7. CASE \E p \in Pages : refused(p) \/ onClose(p) \/ initWebSocket(p)
        BY <2>7, <2>2, SocketStep
  <2>8. CASE \E p \in Pages : onLoad(p)
        BY <2>8, <2>2, LoadStep
  <2>9. CASE \E t \in Slots : text(t) \/ textDropped(t)
    <3>1. chan'[s] = chan[s] \/ Len(chan'[s]) < Len(chan[s])
          BY <2>9, ArrivalStep
    <3> QED
        BY <3>1, <2>2
  <2>10. CASE \E t \in Slots : disconnected(t) \/ dropped(t)
        BY <2>10, <2>2, ServerEndStep
  <2>10a. CASE restart
        BY <2>10a, <2>2, RestartStep
  <2>11. CASE Tick
        BY <2>11, <2>2 DEF Tick
  <2> QED
      BY <2>4, <2>5, <2>6, <2>7, <2>8, <2>9, <2>10, <2>11, <2>10a
      DEF Next
<1> QED
    BY <1>1, Invariance, PTL DEF Spec, SentIsHeld

=============================================================================
