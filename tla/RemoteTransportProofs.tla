----------------------- MODULE RemoteTransportProofs -----------------------
(***************************************************************************)
(* Proofs about RemoteTransport, for any number of calls and any size of   *)
(* the queue: calls are handled once, and in order but for one.            *)
(***************************************************************************)
EXTENDS RemoteTransport, FiniteSetTheorems, SequenceTheorems, TLAPS

\* The calls the device has accepted, in order, handled or not.
Accepted == executed \o queue

In(s) == {s[i] : i \in 1..Len(s)}
Past(A, way) == {A[i].call : i \in {k \in 1..Len(A) : A[k].way = way}}
Held(h) == IF h = None THEN {} ELSE {h}

Sorted(s)   == \A i, j \in 1..Len(s) : i < j => s[i] < s[j]
Below(S, T) == \A x \in S, y \in T : x < y

\* A[j] came directly, after a relayed call.
Overtaken(A, j) ==
    A[j].way = "direct" /\ \E i \in 1..Len(A) : i < j /\ A[i].way = "relay"

OrderTypes ==
    /\ seq \in 0..MaxCalls
    /\ held \in Calls \cup {None}
    /\ queue \in Seq(Taken) /\ executed \in Seq(Taken)
    /\ dcUp \in Seq(Calls) /\ wsUp \in Seq(Calls)
    /\ relay \in BOOLEAN /\ viaRelay \in BOOLEAN

\* Where calls can be, from the oldest to the newest: each path keeps its order,
\* and the console sends on the direct one before it sends any through the hub.
\* D and R were accepted directly and from the hub, H is held, U and W are under
\* way on either path, n is the newest call and r says that the Link relays.
Placed(D, H, U, R, W, n, r) ==
    /\ Below(D, H) /\ Below(D, U) /\ Below(H, U)
    /\ Below(D \cup H \cup U, R \cup W)
    /\ Below(R, W)
    /\ \A x \in D \cup H \cup U \cup R \cup W : x \in Calls /\ x <= n
    /\ ~ r => R = {} /\ W = {}

PlaceInv ==
    /\ Sorted(dcUp) /\ Sorted(wsUp)
    /\ Placed(Past(Accepted, "direct"), Held(held), In(dcUp),
              Past(Accepted, "relay"), In(wsUp), seq, relay)

\* Calls of one way are accepted in order; a direct one after a relayed one is
\* what OnMessage held when the first of those came, so it is the last.
InOrder(A, h, v) ==
    /\ \A i, j \in 1..Len(A) : i < j /\ A[i].way = A[j].way => A[i].call < A[j].call
    /\ \A i, j \in 1..Len(A) : Overtaken(A, i) /\ Overtaken(A, j) => i = j
    /\ (\E i \in 1..Len(A) : A[i].way = "relay") => v
    /\ \A j \in 1..Len(A) : Overtaken(A, j) => h = None

OrderInv == OrderTypes /\ PlaceInv /\ InOrder(Accepted, held, viaRelay)

-----------------------------------------------------------------------------
(* Sequences of calls.                                                     *)

LEMMA AppendCall ==
    ASSUME NEW s \in Seq(Calls), NEW c \in Calls
    PROVE  /\ Append(s, c) \in Seq(Calls)
           /\ In(Append(s, c)) = In(s) \cup {c}
           /\ Sorted(s) /\ (\A x \in In(s) : x < c) => Sorted(Append(s, c))
<1>1. /\ Append(s, c) \in Seq(Calls) /\ Len(Append(s, c)) = Len(s) + 1 /\ Len(s) \in Nat
      /\ \A i \in 1..Len(s) : Append(s, c)[i] = s[i]
      /\ Append(s, c)[Len(s) + 1] = c
  OBVIOUS
<1> DEFINE t == Append(s, c)
<1> HIDE DEF t
<1>2. t \in Seq(Calls) /\ Len(t) = Len(s) + 1 /\ Len(s) \in Nat
      /\ (\A i \in 1..Len(s) : t[i] = s[i]) /\ t[Len(s) + 1] = c
  BY <1>1 DEF t
<1>3. In(t) = In(s) \cup {c}
  BY <1>2 DEF In
<1>4. ASSUME Sorted(s), \A x \in In(s) : x < c PROVE Sorted(t)
  BY <1>2, <1>4 DEF Sorted, In
<1> QED
  BY <1>2, <1>3, <1>4 DEF t

LEMMA TailCalls ==
    ASSUME NEW s \in Seq(Calls), s # <<>>
    PROVE  /\ Head(s) \in Calls /\ Tail(s) \in Seq(Calls)
           /\ In(s) = {Head(s)} \cup In(Tail(s))
           /\ Sorted(s) => Sorted(Tail(s)) /\ \A x \in In(Tail(s)) : Head(s) < x
<1> DEFINE t == Tail(s)
<1>1. /\ t \in Seq(Calls) /\ Len(s) \in Nat \ {0} /\ Len(t) = Len(s) - 1
      /\ \A i \in 1..Len(t) : t[i] = s[i + 1]
      /\ Head(s) = s[1] /\ Head(s) \in Calls
  OBVIOUS
<1> HIDE DEF t
<1>2. In(s) = {Head(s)} \cup In(t)
  <2>1. \A i \in 1..Len(s) : i = 1 \/ (i - 1 \in 1..Len(t) /\ s[i] = t[i - 1])
    BY <1>1
  <2>2. \A i \in 1..Len(t) : i + 1 \in 1..Len(s) /\ t[i] = s[i + 1]
    BY <1>1
  <2>3. 1 \in 1..Len(s)
    BY <1>1
  <2> QED
    BY <1>1, <2>1, <2>2, <2>3 DEF In
<1>3. ASSUME Sorted(s) PROVE Sorted(t) /\ \A x \in In(t) : Head(s) < x
  <2>1. \A i \in 1..Len(t) : i + 1 \in 1..Len(s) /\ 1 < i + 1 /\ t[i] = s[i + 1]
    BY <1>1
  <2>2. 1 \in 1..Len(s)
    BY <1>1
  <2>3. \A i, j \in 1..Len(s) : i < j => s[i] < s[j]
    BY <1>3 DEF Sorted
  <2>4. \A i \in 1..Len(t) : Head(s) < t[i]
    BY <1>1, <2>1, <2>2, <2>3
  <2>5. \A i, j \in 1..Len(t) : i < j => t[i] < t[j]
    <3> SUFFICES ASSUME NEW i \in 1..Len(t), NEW j \in 1..Len(t), i < j PROVE t[i] < t[j]
      OBVIOUS
    <3>1. i + 1 < j + 1
      BY <1>1
    <3> QED
      BY <2>1, <2>3, <3>1
  <2> QED
    BY <2>4, <2>5 DEF Sorted, In
<1> QED
  BY <1>1, <1>2, <1>3 DEF t

LEMMA EmptyIn == In(<<>>) = {} /\ Sorted(<<>>) /\ <<>> \in Seq(Calls)
BY DEF In, Sorted

\* Acceptance adds at the end of what was accepted; handling moves the border
\* between executed and queue.
LEMMA AcceptAppends ==
    ASSUME NEW T, NEW e \in Seq(T), NEW q \in Seq(T), NEW x \in T
    PROVE  /\ e \o q \in Seq(T) /\ Append(q, x) \in Seq(T)
           /\ e \o Append(q, x) = Append(e \o q, x)
<1>1. e \o q \in Seq(T) /\ Append(q, x) \in Seq(T)
  OBVIOUS
<1> DEFINE l == e \o Append(q, x)  r == Append(e \o q, x)
<1>2. l \in Seq(T) /\ r \in Seq(T) /\ Len(l) = Len(r)
  OBVIOUS
<1>3. ASSUME NEW i \in 1..Len(l) PROVE l[i] = r[i]
  OBVIOUS
<1> HIDE DEF l, r
<1>4. l = r
  BY <1>2, <1>3, SeqEqual
<1> QED
  BY <1>1, <1>4 DEF l, r

LEMMA HandleKeeps ==
    ASSUME NEW T, NEW e \in Seq(T), NEW q \in Seq(T), q # <<>>
    PROVE  /\ Append(e, Head(q)) \in Seq(T) /\ Tail(q) \in Seq(T)
           /\ Append(e, Head(q)) \o Tail(q) = e \o q
<1>1. /\ Append(e, Head(q)) \in Seq(T) /\ Tail(q) \in Seq(T)
      /\ Len(q) \in Nat \ {0} /\ Len(e) \in Nat
      /\ Len(Append(e, Head(q))) = Len(e) + 1 /\ Len(Tail(q)) = Len(q) - 1
  OBVIOUS
<1> DEFINE l == Append(e, Head(q)) \o Tail(q)  r == e \o q
<1>2. l \in Seq(T) /\ r \in Seq(T) /\ Len(l) = Len(e) + Len(q) /\ Len(r) = Len(e) + Len(q)
  BY <1>1
<1>3. ASSUME NEW i \in 1..Len(l) PROVE l[i] = r[i]
  <2>1. CASE i <= Len(e)
    BY <1>1, <1>2, <2>1
  <2>2. CASE i = Len(e) + 1
    BY <1>1, <1>2, <2>2
  <2>3. CASE i > Len(e) + 1
    BY <1>1, <1>2, <2>3
  <2> QED
    BY <1>1, <1>2, <2>1, <2>2, <2>3
<1> HIDE DEF l, r
<1>4. l = r
  BY <1>2, <1>3, SeqEqual
<1> QED
  BY <1>1, <1>4 DEF l, r

\* What acceptance of a call does to what was accepted.
LEMMA PastAppend ==
    ASSUME NEW A \in Seq(Taken), NEW c \in Calls, NEW way \in Ways
    PROVE  LET B == Append(A, [call |-> c, way |-> way]) IN
           /\ Past(B, way) = Past(A, way) \cup {c}
           /\ \A w \in Ways : w # way => Past(B, w) = Past(A, w)
<1> DEFINE x == [call |-> c, way |-> way]
           B == Append(A, x)
<1>1. x \in Taken /\ x.call = c /\ x.way = way
  BY DEF Taken
<1> HIDE DEF x
<1>2. /\ B \in Seq(Taken) /\ Len(A) \in Nat /\ Len(B) = Len(A) + 1
      /\ (\A i \in 1..Len(A) : B[i] = A[i]) /\ B[Len(A) + 1] = x
  BY <1>1
<1> HIDE DEF B
<1>3. 1..Len(B) = (1..Len(A)) \cup {Len(A) + 1} /\ Len(A) + 1 \notin 1..Len(A)
  BY <1>2
<1>4. Past(B, way) = Past(A, way) \cup {c}
  <2>1. {k \in 1..Len(B) : B[k].way = way}
           = {k \in 1..Len(A) : A[k].way = way} \cup {Len(A) + 1}
    BY <1>1, <1>2, <1>3
  <2> QED
    BY <1>1, <1>2, <1>3, <2>1 DEF Past
<1>5. ASSUME NEW w \in Ways, w # way PROVE Past(B, w) = Past(A, w)
  BY <1>1, <1>2, <1>3, <1>5, Zenon DEF Past
<1> QED
  BY <1>4, <1>5 DEF B, x

LEMMA InOrderAppend ==
    ASSUME NEW A \in Seq(Taken), NEW c \in Calls, NEW way \in Ways,
           NEW h, NEW v \in BOOLEAN, NEW g, NEW u \in BOOLEAN,
           InOrder(A, h, v),
           \A x \in Past(A, way) : x < c,
           way = "direct" => h # None /\ g = None /\ u = v,
           way = "relay" => u /\ g = h
    PROVE  InOrder(Append(A, [call |-> c, way |-> way]), g, u)
<1> DEFINE x == [call |-> c, way |-> way]
           B == Append(A, x)
<1>1. x \in Taken /\ x.call = c /\ x.way = way
  BY DEF Taken
<1> HIDE DEF x
<1>2. /\ B \in Seq(Taken) /\ Len(A) \in Nat /\ Len(B) = Len(A) + 1
      /\ (\A i \in 1..Len(A) : B[i] = A[i]) /\ B[Len(A) + 1] = x
  BY <1>1
<1> HIDE DEF B
<1>3. 1..Len(B) = (1..Len(A)) \cup {Len(A) + 1}
  BY <1>2
<1>4. \A i \in 1..Len(A) : A[i].way = way => A[i].call < c
  BY DEF Past
<1>5. \A i, j \in 1..Len(B) : i < j /\ B[i].way = B[j].way => B[i].call < B[j].call
  BY <1>1, <1>2, <1>3, <1>4 DEF InOrder
<1>6. \A j \in 1..Len(A) : Overtaken(B, j) <=> Overtaken(A, j)
  BY <1>2, <1>3 DEF Overtaken
<1>7. CASE way = "direct"
  <2>1. \A j \in 1..Len(A) : ~ Overtaken(B, j)
    BY <1>6, <1>7 DEF InOrder
  <2>2. \A i, j \in 1..Len(B) : Overtaken(B, i) /\ Overtaken(B, j) => i = j
    BY <1>3, <2>1
  <2>3. (\E i \in 1..Len(B) : B[i].way = "relay") => u
    BY <1>1, <1>2, <1>3, <1>7 DEF InOrder
  <2> QED
    BY <1>5, <1>7, <2>2, <2>3 DEF InOrder, B, x
<1>8. CASE way = "relay"
  <2>1. ~ Overtaken(B, Len(A) + 1)
    BY <1>1, <1>2, <1>8 DEF Overtaken
  <2>2. \A i, j \in 1..Len(B) : Overtaken(B, i) /\ Overtaken(B, j) => i = j
    BY <1>3, <1>6, <2>1 DEF InOrder
  <2>3. \A j \in 1..Len(B) : Overtaken(B, j) => g = None
    BY <1>3, <1>6, <1>8, <2>1 DEF InOrder
  <2> QED
    BY <1>5, <1>8, <2>2, <2>3 DEF InOrder, B, x
<1> QED
  BY <1>7, <1>8 DEF Ways

-----------------------------------------------------------------------------
(* The places of the calls: what a step may move.                          *)

\* Nothing but a call of the console adds one, and it is the newest.
LEMMA PlacedAfterCall ==
    ASSUME NEW D, NEW H, NEW U, NEW R, NEW W, NEW n \in Nat, NEW r \in BOOLEAN,
           Placed(D, H, U, R, W, n, r), n + 1 \in Calls
    PROVE  /\ ~ r => Placed(D, H, U \cup {n + 1}, R, W, n + 1, r)
           /\ Placed(D, H, U, R, W, n + 1, r)
           /\ Placed(D, H, U, R, W \cup {n + 1}, n + 1, TRUE)
BY RemoteTransportConstants DEF Placed, Below, Calls

\* Along each path calls move, or are lost, in their order.
LEMMA PlacedAfterMove ==
    ASSUME NEW D, NEW H, NEW U, NEW R, NEW W, NEW n \in Nat, NEW r \in BOOLEAN,
           Placed(D, H, U, R, W, n, r)
    PROVE  /\ Placed(D, H, {}, R, W, n, r)
           /\ Placed(D, H, U, R, W, n, TRUE)
           /\ Placed(D, {}, U, R, W, n, r)
           /\ Placed(D \cup H, {}, U, R, W, n, r)
BY RemoteTransportConstants DEF Placed, Below, Calls

-----------------------------------------------------------------------------
(* The steps.                                                              *)

LEMMA OrderInit == Init => OrderInv
<1> SUFFICES ASSUME Init PROVE OrderInv
  OBVIOUS
<1>1. Accepted = <<>> /\ Len(<<>>) = 0
  BY DEF Init, Accepted
<1>2. Past(<<>>, "direct") = {} /\ Past(<<>>, "relay") = {} /\ Held(held) = {}
  BY <1>1 DEF Past, Held, Init
<1>3. OrderTypes
  <2>1. 0 \in 0..MaxCalls
    BY RemoteTransportConstants
  <2>2. \A S : <<>> \in Seq(S)
    OBVIOUS
  <2> QED
    BY <2>1, <2>2 DEF Init, OrderTypes
<1>4. PlaceInv
  BY <1>1, <1>2, EmptyIn DEF Init, PlaceInv, Placed, Below
<1>5. InOrder(<<>>, held, viaRelay)
  BY <1>1 DEF InOrder
<1> QED
  BY <1>1, <1>3, <1>4, <1>5 DEF OrderInv

\* The steps that touch neither the calls nor what was accepted; the Link may
\* switch to the hub.
Elsewhere ==
    /\ UNCHANGED <<seq, viaRelay, held, queue, executed, wsUp>>
    /\ relay' = relay \/ relay' = TRUE
    /\ dcUp' = dcUp \/ dcUp' = <<>>

LEMMA OrderElsewhere ==
    ASSUME OrderInv, Elsewhere PROVE OrderInv'
<1>1. OrderTypes'
  BY EmptyIn DEF OrderInv, OrderTypes, Elsewhere
<1>2. Accepted' = Accepted /\ held' = held /\ viaRelay' = viaRelay
  BY DEF Elsewhere, Accepted
<1>3. InOrder(Accepted', held', viaRelay')
  BY <1>2 DEF OrderInv
<1> DEFINE D == Past(Accepted, "direct")  R == Past(Accepted, "relay")
<1> HIDE DEF D, R
<1>4. Sorted(dcUp) /\ Sorted(wsUp) /\ Placed(D, Held(held), In(dcUp), R, In(wsUp), seq, relay)
  BY DEF OrderInv, PlaceInv, D, R
<1>5. seq \in Nat /\ relay \in BOOLEAN
  BY DEF OrderInv, OrderTypes
<1>6. Placed(D, Held(held), In(dcUp'), R, In(wsUp), seq, relay) /\ Sorted(dcUp')
  BY <1>4, <1>5, PlacedAfterMove, EmptyIn DEF Elsewhere
<1>7. Placed(D, Held(held), In(dcUp'), R, In(wsUp), seq, relay')
  BY <1>5, <1>6, PlacedAfterMove DEF Elsewhere
<1>8. PlaceInv'
  BY <1>2, <1>4, <1>6, <1>7 DEF PlaceInv, Elsewhere, D, R
<1> QED
  BY <1>1, <1>3, <1>8 DEF OrderInv

LEMMA OrderCall ==
    ASSUME OrderInv, Call PROVE OrderInv'
<1>1. Accepted' = Accepted /\ held' = held /\ viaRelay' = viaRelay
  BY DEF Call, session, Accepted
<1>2. InOrder(Accepted', held', viaRelay')
  BY <1>1 DEF OrderInv
<1> DEFINE D == Past(Accepted, "direct")  R == Past(Accepted, "relay")
<1> HIDE DEF D, R
<1>3. Sorted(dcUp) /\ Sorted(wsUp) /\ Placed(D, Held(held), In(dcUp), R, In(wsUp), seq, relay)
  BY DEF OrderInv, PlaceInv, D, R
<1>4. seq \in Nat /\ relay \in BOOLEAN /\ seq + 1 \in Calls /\ seq' = seq + 1
      /\ dcUp \in Seq(Calls) /\ wsUp \in Seq(Calls)
  BY RemoteTransportConstants DEF OrderInv, OrderTypes, Call, Calls
<1>5. (\A x \in In(dcUp) \cup In(wsUp) : x < seq + 1)
  BY <1>3, <1>4 DEF Placed, Calls
<1>6. /\ Append(dcUp, seq + 1) \in Seq(Calls) /\ Sorted(Append(dcUp, seq + 1))
      /\ In(Append(dcUp, seq + 1)) = In(dcUp) \cup {seq + 1}
  BY <1>3, <1>4, <1>5, AppendCall
<1>7. /\ Append(wsUp, seq + 1) \in Seq(Calls) /\ Sorted(Append(wsUp, seq + 1))
      /\ In(Append(wsUp, seq + 1)) = In(wsUp) \cup {seq + 1}
  BY <1>3, <1>4, <1>5, AppendCall
<1>8. \/ dcUp' = Append(dcUp, seq + 1) /\ ~ relay /\ relay' = relay /\ wsUp' = wsUp
      \/ dcUp' = dcUp /\ relay' = relay /\ wsUp' = wsUp
      \/ dcUp' = dcUp /\ relay' = TRUE /\ wsUp' = Append(wsUp, seq + 1)
  BY DEF Call, UseRelay
<1>9. OrderTypes'
  <2>1. seq' \in 0..MaxCalls
    BY <1>4 DEF Calls
  <2>2. dcUp' \in Seq(Calls) /\ wsUp' \in Seq(Calls) /\ relay' \in BOOLEAN
    BY <1>4, <1>6, <1>7, <1>8
  <2>3. UNCHANGED <<held, queue, executed, viaRelay>>
    BY DEF Call, session
  <2> QED
    BY <2>1, <2>2, <2>3 DEF OrderInv, OrderTypes
<1>10. Placed(D, Held(held), In(dcUp'), R, In(wsUp'), seq + 1, relay')
       /\ Sorted(dcUp') /\ Sorted(wsUp')
  <2>1. /\ ~ relay => Placed(D, Held(held), In(dcUp) \cup {seq + 1}, R, In(wsUp), seq + 1, relay)
        /\ Placed(D, Held(held), In(dcUp), R, In(wsUp), seq + 1, relay)
        /\ Placed(D, Held(held), In(dcUp), R, In(wsUp) \cup {seq + 1}, seq + 1, TRUE)
    BY <1>3, <1>4, PlacedAfterCall
  <2> QED
    BY <1>3, <1>6, <1>7, <1>8, <2>1
<1>11. PlaceInv'
  BY <1>1, <1>4, <1>10 DEF PlaceInv, D, R
<1> QED
  BY <1>2, <1>9, <1>11 DEF OrderInv

LEMMA OrderDirectArrives ==
    ASSUME OrderInv, DirectArrives PROVE OrderInv'
<1>1. Accepted' = Accepted /\ UNCHANGED <<seq, relay, viaRelay, queue, executed, wsUp>>
  BY DEF DirectArrives, Accepted, linkState
<1>2. dcUp # <<>> /\ held = None /\ dcUp' = Tail(dcUp)
      /\ held' = IF viaRelay THEN None ELSE Head(dcUp)
  BY DEF DirectArrives
<1>3. seq \in Nat /\ relay \in BOOLEAN /\ dcUp \in Seq(Calls)
  BY DEF OrderInv, OrderTypes
<1>4. /\ Head(dcUp) \in Calls /\ dcUp' \in Seq(Calls)
      /\ In(dcUp) = {Head(dcUp)} \cup In(dcUp')
      /\ Sorted(dcUp') /\ \A x \in In(dcUp') : Head(dcUp) < x
  BY <1>2, <1>3, TailCalls DEF OrderInv, PlaceInv
<1> DEFINE D == Past(Accepted, "direct")  R == Past(Accepted, "relay")
<1> HIDE DEF D, R
<1>5. Sorted(wsUp) /\ Placed(D, {}, In(dcUp), R, In(wsUp), seq, relay)
  BY <1>2 DEF OrderInv, PlaceInv, D, R, Held
<1>6. Held(held') = {} \/ Held(held') = {Head(dcUp)}
  BY <1>2 DEF Held
<1>7. Placed(D, Held(held'), In(dcUp'), R, In(wsUp), seq, relay)
  BY <1>3, <1>4, <1>5, <1>6, RemoteTransportConstants DEF Placed, Below, Calls
<1>8. PlaceInv'
  BY <1>1, <1>4, <1>5, <1>7 DEF PlaceInv, D, R
<1>9. InOrder(Accepted, held', viaRelay)
  <2>1. InOrder(Accepted, held, viaRelay)
    BY DEF OrderInv
  <2>2. CASE viaRelay
    BY <1>2, <2>1, <2>2
  <2>3. CASE ~ viaRelay
    BY <2>1, <2>3 DEF InOrder, Overtaken
  <2> QED
    BY <2>2, <2>3
<1>10. OrderTypes'
  BY <1>1, <1>2, <1>4 DEF OrderInv, OrderTypes
<1> QED
  BY <1>1, <1>8, <1>9, <1>10 DEF OrderInv

LEMMA OrderDirectAccepted ==
    ASSUME OrderInv, DirectAccepted PROVE OrderInv'
<1>1. held # None /\ held' = None /\ UNCHANGED <<seq, relay, viaRelay, executed, dcUp, wsUp>>
  BY DEF DirectAccepted, linkState, wires
<1>2. queue' = queue \/ queue' = Append(queue, [call |-> held, way |-> "direct"])
  BY DEF DirectAccepted, Accept
<1>3. seq \in Nat /\ relay \in BOOLEAN /\ viaRelay \in BOOLEAN /\ held \in Calls
      /\ executed \in Seq(Taken) /\ queue \in Seq(Taken) /\ Accepted \in Seq(Taken)
  BY <1>1 DEF OrderInv, OrderTypes, Accepted
<1>4. [call |-> held, way |-> "direct"] \in Taken /\ "direct" \in Ways /\ "relay" \in Ways
  BY <1>3 DEF Taken, Ways
<1>5. queue' \in Seq(Taken) /\ (\/ Accepted' = Accepted
                                \/ Accepted' = Append(Accepted, [call |-> held, way |-> "direct"]))
  <2> DEFINE new == [call |-> held, way |-> "direct"]
  <2>1. new \in Taken
    BY <1>4
  <2>2. queue' = queue \/ queue' = Append(queue, new)
    BY <1>2
  <2> HIDE DEF new
  <2>3. /\ Append(queue, new) \in Seq(Taken)
        /\ executed \o Append(queue, new) = Append(executed \o queue, new)
    BY <1>3, <2>1, AcceptAppends
  <2>4. queue' \in Seq(Taken) /\ (Accepted' = Accepted \/ Accepted' = Append(Accepted, new))
    BY <1>1, <1>3, <2>2, <2>3 DEF Accepted
  <2> QED
    BY <2>4 DEF new
<1> DEFINE D == Past(Accepted, "direct")  R == Past(Accepted, "relay")
<1>6. \/ Past(Accepted', "direct") = D /\ Past(Accepted', "relay") = R
      \/ Past(Accepted', "direct") = D \cup {held} /\ Past(Accepted', "relay") = R
  <2> DEFINE B == Append(Accepted, [call |-> held, way |-> "direct"])
  <2>1. Past(B, "direct") = D \cup {held} /\ Past(B, "relay") = R
    BY <1>3, <1>4, PastAppend
  <2>2. Accepted' = Accepted \/ Accepted' = B
    BY <1>5
  <2> HIDE DEF B
  <2> QED
    BY <2>1, <2>2
<1>7. Held(held) = {held} /\ Held(held') = {}
  BY <1>1 DEF Held
<1>8. Sorted(dcUp) /\ Sorted(wsUp) /\ Placed(D, {held}, In(dcUp), R, In(wsUp), seq, relay)
  BY <1>7 DEF OrderInv, PlaceInv
<1> HIDE DEF D, R
<1>9. Placed(Past(Accepted', "direct"), {}, In(dcUp), Past(Accepted', "relay"), In(wsUp), seq, relay)
  <2> DEFINE H == {held}  U == In(dcUp)  W == In(wsUp)
  <2> HIDE DEF H, U, W
  <2>1. Placed(D, {}, U, R, W, seq, relay) /\ Placed(D \cup H, {}, U, R, W, seq, relay)
    <3>1. Placed(D, H, U, R, W, seq, relay)
      BY <1>8 DEF H, U, W
    <3> QED
      BY <1>3, <3>1, RemoteTransportConstants DEF Placed, Below, Calls
  <2> QED
    BY <1>6, <2>1 DEF H, U, W
<1>10. PlaceInv'
  BY <1>1, <1>7, <1>8, <1>9 DEF PlaceInv
<1>11. InOrder(Accepted', None, viaRelay)
  <2>1. InOrder(Accepted, held, viaRelay)
    BY DEF OrderInv
  <2>2. \A x \in Past(Accepted, "direct") : x < held
    BY <1>8 DEF Placed, Below, D
  <2>3. CASE Accepted' = Accepted
    BY <2>1, <2>3 DEF InOrder
  <2>4. CASE Accepted' = Append(Accepted, [call |-> held, way |-> "direct"])
    BY <1>1, <1>3, <1>4, <2>1, <2>2, <2>4, InOrderAppend
  <2> QED
    BY <1>5, <2>3, <2>4
<1>12. OrderTypes'
  BY <1>1, <1>5 DEF OrderInv, OrderTypes
<1> QED
  BY <1>1, <1>10, <1>11, <1>12 DEF OrderInv

LEMMA OrderRelayArrives ==
    ASSUME OrderInv, RelayArrives PROVE OrderInv'
<1>1. wsUp # <<>> /\ wsUp' = Tail(wsUp) /\ viaRelay' = TRUE
      /\ UNCHANGED <<seq, relay, held, executed, dcUp>>
  BY DEF RelayArrives, linkState
<1> DEFINE c == Head(wsUp)
<1>2. queue' = queue \/ queue' = Append(queue, [call |-> c, way |-> "relay"])
  BY DEF RelayArrives, Accept
<1>3. seq \in Nat /\ relay \in BOOLEAN /\ viaRelay \in BOOLEAN /\ wsUp \in Seq(Calls)
      /\ executed \in Seq(Taken) /\ queue \in Seq(Taken) /\ Accepted \in Seq(Taken)
  BY <1>1 DEF OrderInv, OrderTypes, Accepted
<1>4. /\ c \in Calls /\ wsUp' \in Seq(Calls) /\ In(wsUp) = {c} \cup In(wsUp')
      /\ Sorted(wsUp') /\ \A x \in In(wsUp') : c < x
  BY <1>1, <1>3, TailCalls DEF OrderInv, PlaceInv
<1> HIDE DEF c
<1>5. [call |-> c, way |-> "relay"] \in Taken /\ "direct" \in Ways /\ "relay" \in Ways
  BY <1>4 DEF Taken, Ways
<1>6. queue' \in Seq(Taken) /\ (\/ Accepted' = Accepted
                                \/ Accepted' = Append(Accepted, [call |-> c, way |-> "relay"]))
  <2> DEFINE new == [call |-> c, way |-> "relay"]
  <2>1. new \in Taken
    BY <1>5
  <2>2. queue' = queue \/ queue' = Append(queue, new)
    BY <1>2
  <2> HIDE DEF new
  <2>3. /\ Append(queue, new) \in Seq(Taken)
        /\ executed \o Append(queue, new) = Append(executed \o queue, new)
    BY <1>3, <2>1, AcceptAppends
  <2>4. queue' \in Seq(Taken) /\ (Accepted' = Accepted \/ Accepted' = Append(Accepted, new))
    BY <1>1, <1>3, <2>2, <2>3 DEF Accepted
  <2> QED
    BY <2>4 DEF new
<1> DEFINE D == Past(Accepted, "direct")  R == Past(Accepted, "relay")
<1>7. \/ Past(Accepted', "direct") = D /\ Past(Accepted', "relay") = R
      \/ Past(Accepted', "direct") = D /\ Past(Accepted', "relay") = R \cup {c}
  <2> DEFINE B == Append(Accepted, [call |-> c, way |-> "relay"])
  <2>1. Past(B, "relay") = R \cup {c} /\ Past(B, "direct") = D
    BY <1>3, <1>4, <1>5, PastAppend
  <2>2. Accepted' = Accepted \/ Accepted' = B
    BY <1>6
  <2> HIDE DEF B
  <2> QED
    BY <2>1, <2>2
<1>8. Sorted(dcUp) /\ Placed(D, Held(held), In(dcUp), R, In(wsUp), seq, relay)
  BY DEF OrderInv, PlaceInv
<1> HIDE DEF D, R
<1>9. Placed(Past(Accepted', "direct"), Held(held), In(dcUp), Past(Accepted', "relay"), In(wsUp'),
             seq, relay)
  <2>1. \/ Past(Accepted', "relay") = R
        \/ Past(Accepted', "relay") = R \cup {c}
    BY <1>7
  <2>2. Placed(D, Held(held), In(dcUp), Past(Accepted', "relay"), In(wsUp'), seq, relay)
    BY <1>3, <1>4, <1>8, <2>1, RemoteTransportConstants DEF Placed, Below, Calls
  <2> QED
    BY <1>7, <2>2
<1>10. PlaceInv'
  BY <1>1, <1>4, <1>8, <1>9 DEF PlaceInv
<1>11. InOrder(Accepted', held, TRUE)
  <2>1. InOrder(Accepted, held, viaRelay)
    BY DEF OrderInv
  <2>2. \A x \in Past(Accepted, "relay") : x < c
    BY <1>4, <1>8 DEF Placed, Below, R
  <2>3. CASE Accepted' = Accepted
    BY <2>1, <2>3 DEF InOrder
  <2>4. CASE Accepted' = Append(Accepted, [call |-> c, way |-> "relay"])
    BY <1>3, <1>4, <1>5, <2>1, <2>2, <2>4, InOrderAppend
  <2> QED
    BY <1>6, <2>3, <2>4
<1>12. OrderTypes'
  BY <1>1, <1>4, <1>6 DEF OrderInv, OrderTypes
<1> QED
  BY <1>1, <1>10, <1>11, <1>12 DEF OrderInv

LEMMA OrderHandle ==
    ASSUME OrderInv, Handle PROVE OrderInv'
<1>1. queue # <<>> /\ queue' = Tail(queue) /\ executed' = Append(executed, Head(queue))
      /\ UNCHANGED <<seq, relay, viaRelay, held, dcUp, wsUp>>
  BY DEF Handle, linkState, wires
<1>2. executed \in Seq(Taken) /\ queue \in Seq(Taken)
  BY DEF OrderInv, OrderTypes
<1>3. queue' \in Seq(Taken) /\ executed' \in Seq(Taken) /\ Accepted' = Accepted
  BY <1>1, <1>2, HandleKeeps DEF Accepted
<1>4. OrderTypes'
  BY <1>1, <1>3 DEF OrderInv, OrderTypes
<1>5. PlaceInv'
  BY <1>1, <1>3 DEF OrderInv, PlaceInv
<1> QED
  BY <1>1, <1>3, <1>4, <1>5 DEF OrderInv

LEMMA OrderStep == OrderInv /\ [Next]_vars => OrderInv'
<1> SUFFICES ASSUME OrderInv, [Next]_vars PROVE OrderInv'
  OBVIOUS
<1>1. CASE PathComesUp
  BY <1>1, OrderElsewhere DEF PathComesUp, Elsewhere, linkState, session, wires
<1>2. CASE PathFails
  BY <1>2, OrderElsewhere DEF PathFails, Elsewhere, linkState, session
<1>3. CASE DeviceHasChannel
  BY <1>3, OrderElsewhere DEF DeviceHasChannel, Elsewhere, linkState, session, wires
<1>4. CASE ChannelCloses
  BY <1>4, OrderElsewhere DEF ChannelCloses, Elsewhere, linkState, session, wires
<1>5. CASE SendOffer
  BY <1>5, OrderElsewhere DEF SendOffer, Elsewhere, session, wires
<1>6. CASE ChannelOpens
  BY <1>6, OrderElsewhere DEF ChannelOpens, Elsewhere, session, wires
<1>7. CASE FallbackTimer
  BY <1>7, OrderElsewhere DEF FallbackTimer, UseRelay, Elsewhere, session, wires
<1>8. CASE Disconnected
  BY <1>8, OrderElsewhere DEF Disconnected, UseRelay, Elsewhere, session, wires
<1>9. CASE Call
  BY <1>9, OrderCall
<1>10. ASSUME NEW c \in Calls, CallTimeout(c) PROVE OrderInv'
  BY <1>10, OrderElsewhere DEF CallTimeout, Elsewhere, session, wires
<1>11. CASE LinkEnds
  BY <1>11, OrderElsewhere DEF LinkEnds, Elsewhere, session, wires
<1>12. CASE ReceiveDirect
  BY <1>12, OrderElsewhere DEF ReceiveDirect, Elsewhere, session
<1>13. CASE ReceiveRelay
  BY <1>13, OrderElsewhere DEF ReceiveRelay, Elsewhere, session
<1>14. CASE New
  BY <1>14, OrderElsewhere DEF New, Elsewhere, linkState, wires
<1>15. CASE DirectArrives
  BY <1>15, OrderDirectArrives
<1>16. CASE DirectAccepted
  BY <1>16, OrderDirectAccepted
<1>17. CASE RelayArrives
  BY <1>17, OrderRelayArrives
<1>18. CASE Handle
  BY <1>18, OrderHandle
<1>19. CASE SendChunk
  BY <1>19, OrderElsewhere DEF SendChunk, Elsewhere, linkState
<1>20. CASE SendFails
  BY <1>20, OrderElsewhere DEF SendFails, Elsewhere, linkState, wires
<1>21. CASE SessionEnds
  BY <1>21, OrderElsewhere DEF SessionEnds, Elsewhere, linkState, wires
<1>22. CASE RunReturns
  BY <1>22, OrderElsewhere DEF RunReturns, Elsewhere, linkState, wires
<1>23. CASE UNCHANGED vars
  BY <1>23, OrderElsewhere DEF vars, Elsewhere, linkState, session, wires
<1> QED
  BY <1>1, <1>2, <1>3, <1>4, <1>5, <1>6, <1>7, <1>8, <1>9, <1>10, <1>11, <1>12, <1>13, <1>14,
     <1>15, <1>16, <1>17, <1>18, <1>19, <1>20, <1>21, <1>22, <1>23 DEF Next

-----------------------------------------------------------------------------
(* The theorems.                                                           *)

\* The order of the calls, wherever they are, holds in every reachable state.
THEOREM OrderInvariance == Spec => []OrderInv
<1>1. Init => OrderInv
  BY OrderInit
<1>2. OrderInv /\ [Next]_vars => OrderInv'
  BY OrderStep
<1> QED
  BY <1>1, <1>2, PTL DEF Spec

\* The calls handled are the first of those accepted.
LEMMA ExecutedAccepted ==
    ASSUME OrderInv
    PROVE  /\ DOMAIN executed \subseteq 1..Len(Accepted) /\ DOMAIN executed \subseteq Nat
           /\ \A i \in DOMAIN executed :
                 executed[i] = Accepted[i] /\ Accepted[i].call \in Nat /\ Accepted[i].way \in Ways
<1>1. executed \in Seq(Taken) /\ queue \in Seq(Taken)
  BY DEF OrderInv, OrderTypes
<1>2. /\ Len(Accepted) = Len(executed) + Len(queue) /\ DOMAIN executed = 1..Len(executed)
      /\ Len(executed) \in Nat /\ Len(queue) \in Nat
      /\ \A i \in 1..Len(executed) : Accepted[i] = executed[i] /\ executed[i] \in Taken
  BY <1>1 DEF Accepted
<1>3. \A x \in Taken : x.call \in Nat /\ x.way \in Ways
  BY RemoteTransportConstants DEF Taken, Calls
<1> QED
  BY <1>2, <1>3

\* Two calls that were accepted in the wrong order: the first came from the hub
\* and the second directly.
LEMMA WrongOrder ==
    ASSUME OrderInv, NEW i \in DOMAIN executed, NEW j \in DOMAIN executed, i < j,
           ~ (executed[i].call < executed[j].call)
    PROVE  /\ executed[i].way = "relay" /\ executed[j].way = "direct"
           /\ executed[j].call < executed[i].call
           /\ j \in 1..Len(Accepted) /\ Overtaken(Accepted, j)
<1>1. /\ i \in 1..Len(Accepted) /\ j \in 1..Len(Accepted)
      /\ executed[i] = Accepted[i] /\ executed[j] = Accepted[j]
      /\ Accepted[i].way \in Ways /\ Accepted[j].way \in Ways
  BY ExecutedAccepted
<1>2. Accepted[i].way # Accepted[j].way
  BY <1>1 DEF OrderInv, InOrder
<1>3. \A k, l \in 1..Len(Accepted) :
         Accepted[k].way = "direct" /\ Accepted[l].way = "relay" => Accepted[k].call < Accepted[l].call
  <2>1. Below(Past(Accepted, "direct"), Past(Accepted, "relay"))
    BY DEF OrderInv, PlaceInv, Placed, Below
  <2> QED
    BY <2>1 DEF Below, Past
<1>4. Accepted[i].way = "relay" /\ Accepted[j].way = "direct"
  BY <1>1, <1>2, <1>3 DEF Ways
<1> QED
  BY <1>1, <1>3, <1>4 DEF Overtaken

\* A call is handled at most once, whatever path it takes and whenever either
\* end switches (remote-ui.js call, session.go OnMessage and Relay).
THEOREM HandledOnce == Spec => []ExecutedOnce
<1>1. OrderInv => ExecutedOnce
  <2> SUFFICES ASSUME OrderInv, NEW i \in DOMAIN executed, NEW j \in DOMAIN executed, i # j
               PROVE  executed[i].call # executed[j].call
    BY DEF ExecutedOnce
  <2>1. i \in Nat /\ j \in Nat /\ executed[i].call \in Nat /\ executed[j].call \in Nat
    BY ExecutedAccepted
  <2>2. CASE i < j
    BY <2>1, <2>2, WrongOrder
  <2>3. CASE j < i
    BY <2>1, <2>3, WrongOrder
  <2> QED
    BY <2>1, <2>2, <2>3
<1> QED
  BY <1>1, OrderInvariance, PTL

\* Calls are handled in the order they were made, but for at most one, which
\* OnMessage held across the arrival of the first relayed call.
THEOREM AllButOneInOrder == Spec => []OneCallOvertaken
<1>1. OrderInv => OneCallOvertaken
  <2> SUFFICES ASSUME OrderInv PROVE OneCallOvertaken
    OBVIOUS
  <2> DEFINE late == {j \in DOMAIN executed :
                        \E i \in 1..(j - 1) : executed[i].call > executed[j].call}
  <2>1. ASSUME NEW j \in late
        PROVE  executed[j].way = "direct" /\ j \in 1..Len(Accepted) /\ Overtaken(Accepted, j)
    <3>1. executed \in Seq(Taken)
      BY DEF OrderInv, OrderTypes
    <3>2. j \in DOMAIN executed /\ j \in 1..Len(executed) /\ DOMAIN executed = 1..Len(executed)
          /\ Len(executed) \in Nat
      BY <3>1
    <3>3. PICK i \in 1..(j - 1) : executed[i].call > executed[j].call
      OBVIOUS
    <3>4. i \in DOMAIN executed /\ i < j
      BY <3>2, <3>3
    <3>5. executed[i].call \in Nat /\ executed[j].call \in Nat
      BY <3>2, <3>4, ExecutedAccepted
    <3> QED
      BY <3>2, <3>3, <3>4, <3>5, WrongOrder
  <2>2. \A j, k \in late : j = k
    BY <2>1 DEF OrderInv, InOrder
  <2> HIDE DEF late
  <2>3. Cardinality(late) <= 1
    <3>1. CASE late = {}
      BY <3>1, FS_EmptySet
    <3>2. CASE late # {}
      <4>1. PICK j : late = {j}
        BY <2>2, <3>2
      <4> QED
        BY <4>1, FS_Singleton
    <3> QED
      BY <3>1, <3>2
  <2> QED
    BY <2>1, <2>3 DEF OneCallOvertaken, late
<1> QED
  BY <1>1, OrderInvariance, PTL

-----------------------------------------------------------------------------
(* The types, and with them the limits: 64 calls wait, 4 answers are       *)
(* incomplete at a time.                                                   *)

LEMMA FewIncomplete ==
    ASSUME NEW S \in SUBSET Calls, NEW c \in Calls, NEW T \in SUBSET Calls,
           Cardinality(S \cup {c}) <= MaxParts, T \subseteq S \cup {c}
    PROVE  Cardinality(T) <= MaxParts
<1>1. IsFiniteSet(Calls)
  BY FS_Interval, RemoteTransportConstants DEF Calls
<1>2. IsFiniteSet(S \cup {c})
  BY <1>1, FS_Subset
<1>3. /\ Cardinality(S \cup {c}) \in Nat /\ Cardinality(T) \in Nat
      /\ Cardinality(T) <= Cardinality(S \cup {c})
  BY <1>2, FS_Subset, FS_CardinalityType
<1> QED
  BY <1>3, RemoteTransportConstants

LEMMA TypeInit == Init => TypeOK
<1> SUFFICES ASSUME Init PROVE TypeOK
  OBVIOUS
<1>1. \A S : <<>> \in Seq(S)
  OBVIOUS
<1>2. Incomplete = {} /\ Cardinality({}) = 0
  BY FS_EmptySet DEF Init, Incomplete
<1>3. parts \in [Calls -> Seq(1..2)]
  BY <1>1 DEF Init
<1>4. 0 \in 0..MaxCalls /\ 0 <= MaxParts /\ 0 <= MaxQueue /\ Len(<<>>) = 0
  BY RemoteTransportConstants
<1> QED
  BY <1>1, <1>2, <1>3, <1>4 DEF Init, TypeOK

\* receive, on either path.
LEMMA TypeReceive ==
    ASSUME TypeOK, NEW m \in Chunk, NEW way \in Ways, Receive(m, way)
    PROVE  /\ parts' \in [Calls -> Seq(1..2)] /\ Cardinality(Incomplete') <= MaxParts
           /\ pending' \subseteq Calls /\ closed' \in BOOLEAN
<1>1. m.call \in Calls /\ m.n \in 1..2 /\ m.last \in BOOLEAN
  BY DEF Chunk
<1>2. /\ parts \in [Calls -> Seq(1..2)] /\ Cardinality(Incomplete) <= MaxParts
      /\ pending \subseteq Calls /\ closed \in BOOLEAN
  BY DEF TypeOK
<1> DEFINE got == Append(parts[m.call], m.n)
           next == IF m.last THEN <<>> ELSE got
<1>3. got \in Seq(1..2) /\ <<>> \in Seq(1..2) /\ next \in Seq(1..2)
  BY <1>1, <1>2
<1>4. CASE UNCHANGED <<closed, parts>> /\ pending' = pending \ {m.call}
  BY <1>2, <1>4 DEF Incomplete
<1>5. CASE Closes
  <2>1. Incomplete' = {} /\ parts' \in [Calls -> Seq(1..2)]
    BY <1>3, <1>5 DEF Closes, Incomplete
  <2> QED
    BY <1>5, <2>1, FS_EmptySet, RemoteTransportConstants DEF Closes
<1>6. CASE /\ Cardinality(Incomplete \cup {m.call}) <= MaxParts
           /\ parts' = [parts EXCEPT ![m.call] = next]
           /\ pending' = pending \ {m.call} \/ pending' = pending
           /\ UNCHANGED closed
  <2> HIDE DEF next
  <2>1. /\ parts' \in [Calls -> Seq(1..2)]
        /\ Incomplete' \subseteq Incomplete \cup {m.call}
        /\ Incomplete \subseteq Calls /\ Incomplete' \subseteq Calls
    BY <1>1, <1>2, <1>3, <1>6 DEF Incomplete
  <2>2. Cardinality(Incomplete') <= MaxParts
    BY <1>1, <1>6, <2>1, FewIncomplete
  <2> QED
    BY <1>2, <1>6, <2>1, <2>2
<1>7. Cardinality(Incomplete \cup {m.call}) \in Nat
  <2>1. IsFiniteSet(Calls) /\ Incomplete \cup {m.call} \subseteq Calls
    BY <1>1, FS_Interval, RemoteTransportConstants DEF Calls, Incomplete
  <2> QED
    BY <2>1, FS_Subset, FS_CardinalityType
<1>8. ~ (Cardinality(Incomplete \cup {m.call}) > MaxParts)
         => Cardinality(Incomplete \cup {m.call}) <= MaxParts
  BY <1>7, RemoteTransportConstants
<1> QED
  BY <1>4, <1>5, <1>6, <1>8 DEF Receive

\* accept keeps to the capacity of the queue.
LEMMA TypeAccept ==
    ASSUME TypeOK, NEW c \in Calls, NEW way \in Ways, Accept(c, way)
    PROVE  queue' \in Seq(Taken) /\ Len(queue') <= MaxQueue /\ ctx' \in {"none", "live", "done"}
<1>1. queue \in Seq(Taken) /\ Len(queue) <= MaxQueue /\ ctx \in {"none", "live", "done"}
  BY DEF TypeOK
<1> DEFINE x == [call |-> c, way |-> way]
<1>2. x \in Taken
  BY DEF Taken
<1>3. \/ Len(queue) < MaxQueue /\ queue' = Append(queue, x) /\ ctx' = ctx
      \/ queue' = queue /\ (ctx' = "done" \/ ctx' = ctx)
  BY DEF Accept
<1> HIDE DEF x
<1> QED
  BY <1>1, <1>2, <1>3, RemoteTransportConstants

LEMMA TypeStep == TypeOK /\ [Next]_vars => TypeOK'
<1> SUFFICES ASSUME TypeOK, [Next]_vars PROVE TypeOK'
  OBVIOUS
<1>0. \A S : <<>> \in Seq(S)
  OBVIOUS
<1>1. CASE PathComesUp
  BY <1>1 DEF PathComesUp, TypeOK, Incomplete, linkState, session, channel, wires
<1>2. CASE PathFails
  BY <1>2, <1>0 DEF PathFails, TypeOK, Incomplete, linkState, session, channel, wires
<1>3. CASE DeviceHasChannel
  BY <1>3 DEF DeviceHasChannel, TypeOK, Incomplete, linkState, session, channel, wires
<1>4. CASE ChannelCloses
  BY <1>4 DEF ChannelCloses, TypeOK, Incomplete, linkState, session, channel, wires
<1>5. CASE SendOffer
  BY <1>5 DEF SendOffer, TypeOK, Incomplete, linkState, session, channel, wires
<1>6. CASE ChannelOpens
  BY <1>6 DEF ChannelOpens, TypeOK, Incomplete, linkState, session, channel, wires
<1>7. CASE FallbackTimer
  BY <1>7 DEF FallbackTimer, UseRelay, TypeOK, Incomplete, linkState, session, channel, wires
<1>8. CASE Disconnected
  BY <1>8 DEF Disconnected, UseRelay, TypeOK, Incomplete, linkState, session, channel, wires
<1>9. CASE Call
  <2>1. seq + 1 \in Calls /\ seq' \in 0..MaxCalls
    BY <1>9, RemoteTransportConstants DEF Call, TypeOK, Calls
  <2>2. /\ dcUp' \in Seq(Calls) /\ wsUp' \in Seq(Calls) /\ pending' \subseteq Calls
        /\ ready' \in BOOLEAN /\ relay' \in BOOLEAN
    <3>1. /\ dcUp \in Seq(Calls) /\ wsUp \in Seq(Calls) /\ pending \subseteq Calls
          /\ ready \in BOOLEAN /\ relay \in BOOLEAN
      BY DEF TypeOK
    <3>2. /\ dcUp' = dcUp \/ dcUp' = Append(dcUp, seq + 1)
          /\ wsUp' = wsUp \/ wsUp' = Append(wsUp, seq + 1)
          /\ pending' = pending \cup {seq + 1}
      BY <1>9 DEF Call
    <3>3. ready' \in BOOLEAN /\ relay' \in BOOLEAN
      BY <1>9, <3>1 DEF Call, UseRelay
    <3>4. /\ Append(dcUp, seq + 1) \in Seq(Calls) /\ Append(wsUp, seq + 1) \in Seq(Calls)
          /\ pending \cup {seq + 1} \subseteq Calls
      BY <2>1, <3>1
    <3> QED
      BY <3>1, <3>2, <3>3, <3>4, Zenon
  <2> QED
    BY <1>9, <2>1, <2>2 DEF Call, TypeOK, Incomplete, session, channel
<1>10. ASSUME NEW c \in Calls, CallTimeout(c) PROVE TypeOK'
  BY <1>10 DEF CallTimeout, TypeOK, Incomplete, linkState, session, channel, wires
<1>11. CASE LinkEnds
  <2>1. parts' \in [Calls -> Seq(1..2)] /\ Incomplete' = {}
    BY <1>11, <1>0 DEF LinkEnds, Closes, Incomplete
  <2>2. Cardinality(Incomplete') <= MaxParts
    BY <2>1, FS_EmptySet, RemoteTransportConstants
  <2> QED
    BY <1>11, <2>1, <2>2 DEF LinkEnds, Closes, TypeOK, session, channel, wires
<1>12. CASE ReceiveDirect
  <2>1. Head(dcDown) \in Chunk /\ dcDown' \in Seq(Chunk) /\ "direct" \in Ways
    BY <1>12 DEF ReceiveDirect, TypeOK, Ways
  <2>2. /\ parts' \in [Calls -> Seq(1..2)] /\ Cardinality(Incomplete') <= MaxParts
        /\ pending' \subseteq Calls /\ closed' \in BOOLEAN
    BY <1>12, <2>1, TypeReceive DEF ReceiveDirect
  <2> QED
    BY <1>12, <2>1, <2>2 DEF ReceiveDirect, TypeOK, session, channel
<1>13. CASE ReceiveRelay
  <2>1. Head(wsDown) \in Chunk /\ wsDown' \in Seq(Chunk) /\ "relay" \in Ways
    BY <1>13 DEF ReceiveRelay, TypeOK, Ways
  <2>2. /\ parts' \in [Calls -> Seq(1..2)] /\ Cardinality(Incomplete') <= MaxParts
        /\ pending' \subseteq Calls /\ closed' \in BOOLEAN
    BY <1>13, <2>1, TypeReceive DEF ReceiveRelay
  <2> QED
    BY <1>13, <2>1, <2>2 DEF ReceiveRelay, TypeOK, session, channel
<1>14. CASE New
  BY <1>14 DEF New, TypeOK, Incomplete, linkState, session, channel, wires
<1>15. CASE DirectArrives
  <2>1. dcUp' \in Seq(Calls) /\ held' \in Calls \cup {None}
    BY <1>15 DEF DirectArrives, TypeOK
  <2> QED
    BY <1>15, <2>1 DEF DirectArrives, TypeOK, Incomplete, linkState, channel
<1>16. CASE DirectAccepted
  <2>1. Accept(held, "direct") /\ held \in Calls /\ wsUp' \in Seq(Calls)
    BY <1>16 DEF DirectAccepted, TypeOK, wires
  <2>2. queue' \in Seq(Taken) /\ Len(queue') <= MaxQueue /\ ctx' \in {"none", "live", "done"}
    BY <2>1, TypeAccept DEF Ways
  <2> QED
    BY <1>16, <2>1, <2>2 DEF DirectAccepted, TypeOK, Incomplete, linkState, channel, wires
<1>17. CASE RelayArrives
  <2>1. Accept(Head(wsUp), "relay") /\ Head(wsUp) \in Calls /\ wsUp' \in Seq(Calls)
    BY <1>17 DEF RelayArrives, TypeOK, wires
  <2>2. queue' \in Seq(Taken) /\ Len(queue') <= MaxQueue /\ ctx' \in {"none", "live", "done"}
    BY <2>1, TypeAccept DEF Ways
  <2> QED
    BY <1>17, <2>1, <2>2 DEF RelayArrives, TypeOK, Incomplete, linkState, channel, wires
<1>18. CASE Handle
  <2>1. /\ queue' \in Seq(Taken) /\ Len(queue') <= MaxQueue /\ executed' \in Seq(Taken)
        /\ Head(queue) \in Taken
    BY <1>18, RemoteTransportConstants DEF Handle, TypeOK
  <2>2. answering' \in [call : Calls, n : 1..2]
    BY <1>18, <2>1 DEF Handle, Taken
  <2> QED
    BY <1>18, <2>1, <2>2 DEF Handle, TypeOK, Incomplete, linkState, channel, wires
<1>19. CASE SendChunk
  <2>1. answering \in [call : Calls, n : 1..2]
    BY <1>19 DEF SendChunk, TypeOK
  <2>2. answering' \in [call : Calls, n : 1..2] \cup {None}
    BY <1>19, <2>1 DEF SendChunk, NextChunk
  <2> DEFINE m == [call |-> answering.call, n |-> answering.n,
                   last |-> answering.call \notin Long \/ answering.n = 2]
  <2>3. m \in Chunk
    BY <2>1 DEF Chunk
  <2>4. \/ dcDown' = Append(dcDown, m) /\ wsDown' = wsDown
        \/ dcDown' = dcDown /\ wsDown' = Append(wsDown, m)
        \/ dcDown' = dcDown /\ wsDown' = wsDown
    BY <1>19 DEF SendChunk
  <2> HIDE DEF m
  <2>5. dcDown' \in Seq(Chunk) /\ wsDown' \in Seq(Chunk)
    <3>1. dcDown \in Seq(Chunk) /\ wsDown \in Seq(Chunk)
      BY DEF TypeOK
    <3>2. Append(dcDown, m) \in Seq(Chunk) /\ Append(wsDown, m) \in Seq(Chunk)
      BY <2>3, <3>1
    <3> QED
      BY <2>4, <3>1, <3>2, Zenon
  <2> QED
    BY <1>19, <2>2, <2>5 DEF SendChunk, TypeOK, Incomplete, linkState, channel
<1>20. CASE SendFails
  BY <1>20 DEF SendFails, TypeOK, Incomplete, linkState, session, channel, wires
<1>21. CASE SessionEnds
  BY <1>21 DEF SessionEnds, TypeOK, Incomplete, linkState, session, channel, wires
<1>22. CASE RunReturns
  BY <1>22 DEF RunReturns, TypeOK, Incomplete, linkState, session, channel, wires
<1>23. CASE UNCHANGED vars
  BY <1>23 DEF vars, TypeOK, Incomplete, linkState, session, channel, wires
<1> QED
  BY <1>1, <1>2, <1>3, <1>4, <1>5, <1>6, <1>7, <1>8, <1>9, <1>10, <1>11, <1>12, <1>13, <1>14,
     <1>15, <1>16, <1>17, <1>18, <1>19, <1>20, <1>21, <1>22, <1>23 DEF Next

\* Every variable has its type; the queue of the device never holds more than
\* MaxQueue calls, and the page never more than MaxParts incomplete answers.
THEOREM TypeCorrect == Spec => []TypeOK
<1>1. Init => TypeOK
  BY TypeInit
<1>2. TypeOK /\ [Next]_vars => TypeOK'
  BY TypeStep
<1> QED
  BY <1>1, <1>2, PTL DEF Spec

-----------------------------------------------------------------------------
(* Answers.                                                                *)

\* The calls that run has handled, and those the chunks of s are about.
Handled  == {executed[i].call : i \in 1..Len(executed)}
About(s) == {s[i].call : i \in 1..Len(s)}

\* Nothing is sent, or under way on either path, about any other call.
AnswerInv ==
    /\ answering # None => answering.call \in Handled
    /\ About(dcDown) \subseteq Handled /\ About(wsDown) \subseteq Handled

\* A call of the console is resolved only after the device has handled it: an
\* answer, in one piece or put together from chunks of two paths, never settles
\* a call that is still under way (remote-ui.js receive, session.go send).
ResolvedWasHandled ==
    [][(ReceiveDirect \/ ReceiveRelay) /\ ~ closed' => pending \ pending' \subseteq Handled]_vars

LEMMA AboutAppend ==
    ASSUME NEW s \in Seq(Chunk), NEW m \in Chunk
    PROVE  About(Append(s, m)) = About(s) \cup {m.call}
<1>1. /\ Len(Append(s, m)) = Len(s) + 1 /\ Len(s) \in Nat
      /\ \A i \in 1..Len(s) : Append(s, m)[i] = s[i]
      /\ Append(s, m)[Len(s) + 1] = m
  OBVIOUS
<1> DEFINE t == Append(s, m)
<1> HIDE DEF t
<1>2. /\ Len(t) = Len(s) + 1 /\ Len(s) \in Nat
      /\ \A i \in 1..Len(s) : t[i] = s[i]
      /\ t[Len(s) + 1] = m
  BY <1>1 DEF t
<1>3. About(t) = About(s) \cup {m.call}
  BY <1>2 DEF About
<1> QED
  BY <1>3 DEF t

LEMMA AboutTail ==
    ASSUME NEW s \in Seq(Chunk), s # <<>>
    PROVE  Head(s) \in Chunk /\ Head(s).call \in About(s) /\ About(Tail(s)) \subseteq About(s)
<1> DEFINE t == Tail(s)
<1>1. /\ Len(s) \in Nat \ {0} /\ Len(t) = Len(s) - 1
      /\ \A i \in 1..Len(t) : t[i] = s[i + 1]
      /\ Head(s) = s[1] /\ Head(s) \in Chunk
  OBVIOUS
<1> HIDE DEF t
<1>2. 1 \in 1..Len(s) /\ \A i \in 1..Len(t) : i + 1 \in 1..Len(s)
  BY <1>1
<1>3. About(t) \subseteq About(s) /\ Head(s).call \in About(s)
  BY <1>1, <1>2 DEF About
<1> QED
  BY <1>1, <1>3 DEF t

LEMMA HandledGrows ==
    ASSUME OrderInv, Handle
    PROVE  /\ Handled \subseteq Handled'
           /\ answering' # None => answering'.call \in Handled'
           /\ UNCHANGED <<dcDown, wsDown>>
<1>1. executed \in Seq(Taken) /\ queue \in Seq(Taken) /\ queue # <<>>
  BY DEF OrderInv, OrderTypes, Handle
<1> DEFINE h == Head(queue)
<1>2. h \in Taken
  BY <1>1
<1>3. executed' = Append(executed, h) /\ UNCHANGED <<dcDown, wsDown>>
      /\ answering' = [call |-> h.call, n |-> 1]
  BY DEF Handle, wires
<1> HIDE DEF h
<1>4. /\ Len(executed') = Len(executed) + 1 /\ Len(executed) \in Nat
      /\ \A i \in 1..Len(executed) : executed'[i] = executed[i]
      /\ executed'[Len(executed) + 1] = h
  BY <1>1, <1>2, <1>3
<1>5. Handled \subseteq Handled' /\ h.call \in Handled'
  BY <1>4 DEF Handled
<1> QED
  BY <1>3, <1>5

LEMMA AnswerStep == TypeOK /\ OrderInv /\ AnswerInv /\ [Next]_vars => AnswerInv'
<1> SUFFICES ASSUME TypeOK, OrderInv, AnswerInv, [Next]_vars PROVE AnswerInv'
  OBVIOUS
<1>1. CASE Handle
  BY <1>1, HandledGrows DEF AnswerInv
<1>2. CASE SendChunk
  <2>1. answering \in [call : Calls, n : 1..2] /\ answering # None
    BY <1>2 DEF SendChunk, TypeOK
  <2> DEFINE m == [call |-> answering.call, n |-> answering.n,
                   last |-> answering.call \notin Long \/ answering.n = 2]
  <2>2. m \in Chunk /\ m.call = answering.call
    BY <2>1 DEF Chunk
  <2>3. /\ dcDown' = dcDown \/ dcDown' = Append(dcDown, m)
        /\ wsDown' = wsDown \/ wsDown' = Append(wsDown, m)
        /\ executed' = executed
    BY <1>2 DEF SendChunk
  <2>4. answering' = None \/ answering'.call = answering.call
    BY <1>2, <2>1 DEF SendChunk, NextChunk
  <2> HIDE DEF m
  <2>5. About(dcDown') \subseteq About(dcDown) \cup {answering.call}
    BY <2>2, <2>3, AboutAppend DEF TypeOK
  <2>6. About(wsDown') \subseteq About(wsDown) \cup {answering.call}
    BY <2>2, <2>3, AboutAppend DEF TypeOK
  <2>7. Handled' = Handled
    BY <2>3 DEF Handled
  <2> QED
    BY <2>1, <2>4, <2>5, <2>6, <2>7 DEF AnswerInv
<1>3. CASE ReceiveDirect
  <2>1. dcDown # <<>> /\ dcDown' = Tail(dcDown) /\ UNCHANGED <<wsDown, answering, executed>>
    BY <1>3 DEF ReceiveDirect, session
  <2>2. About(dcDown') \subseteq About(dcDown)
    BY <2>1, AboutTail DEF TypeOK
  <2> QED
    BY <2>1, <2>2 DEF AnswerInv, Handled
<1>4. CASE ReceiveRelay
  <2>1. wsDown # <<>> /\ wsDown' = Tail(wsDown) /\ UNCHANGED <<dcDown, answering, executed>>
    BY <1>4 DEF ReceiveRelay, session
  <2>2. About(wsDown') \subseteq About(wsDown)
    BY <2>1, AboutTail DEF TypeOK
  <2> QED
    BY <2>1, <2>2 DEF AnswerInv, Handled
<1>5. CASE PathFails
  <2>1. dcDown' = <<>> /\ UNCHANGED <<wsDown, answering, executed>>
    BY <1>5 DEF PathFails, session
  <2>2. About(<<>>) = {}
    BY DEF About
  <2> QED
    BY <2>1, <2>2 DEF AnswerInv, Handled
<1>6. CASE SendFails
  BY <1>6 DEF SendFails, wires, AnswerInv, Handled
<1>7. CASE \/ PathComesUp \/ DeviceHasChannel \/ ChannelCloses \/ SendOffer \/ ChannelOpens
           \/ FallbackTimer \/ Disconnected \/ Call \/ (\E c \in Calls : CallTimeout(c))
           \/ LinkEnds
  <2>1. UNCHANGED <<dcDown, wsDown, answering, executed>>
    BY <1>7 DEF PathComesUp, DeviceHasChannel, ChannelCloses, SendOffer, ChannelOpens,
       FallbackTimer, Disconnected, Call, CallTimeout, LinkEnds, session, wires
  <2> QED
    BY <2>1 DEF AnswerInv, Handled
<1>8. CASE \/ New \/ DirectArrives \/ DirectAccepted \/ RelayArrives \/ SessionEnds
           \/ RunReturns \/ UNCHANGED vars
  <2>1. UNCHANGED <<dcDown, wsDown, answering, executed>>
    BY <1>8 DEF New, DirectArrives, DirectAccepted, RelayArrives, SessionEnds, RunReturns,
       vars, session, wires
  <2> QED
    BY <2>1 DEF AnswerInv, Handled
<1> QED
  BY <1>1, <1>2, <1>3, <1>4, <1>5, <1>6, <1>7, <1>8 DEF Next

\* The answers the console gets are those of calls the device has handled, on
\* every path and across a switch (remote-ui.js receive, session.go send).
THEOREM ResolvedAfterHandled == Spec => ResolvedWasHandled
<1>1. Init => AnswerInv
  <2>1. About(<<>>) = {}
    BY DEF About
  <2> QED
    BY <2>1 DEF Init, AnswerInv
<1>2. Spec => []AnswerInv
  BY <1>1, AnswerStep, OrderInvariance, TypeCorrect, PTL DEF Spec
<1>3. ASSUME TypeOK, AnswerInv, NEW s \in Seq(Chunk), s # <<>>, About(s) \subseteq Handled,
             NEW way \in Ways, Receive(Head(s), way), ~ closed'
      PROVE  pending \ pending' \subseteq Handled
  <2>1. Head(s).call \in Handled
    BY <1>3, AboutTail
  <2>2. Closes \/ pending' = pending \ {Head(s).call} \/ pending' = pending
    BY <1>3 DEF Receive
  <2> QED
    BY <1>3, <2>1, <2>2 DEF Closes
<1>4. TypeOK /\ AnswerInv /\ [Next]_vars =>
        [(ReceiveDirect \/ ReceiveRelay) /\ ~ closed' => pending \ pending' \subseteq Handled]_vars
  <2> SUFFICES ASSUME TypeOK, AnswerInv, ReceiveDirect \/ ReceiveRelay, ~ closed'
               PROVE  pending \ pending' \subseteq Handled
    OBVIOUS
  <2>1. CASE ReceiveDirect
    BY <1>3, <2>1 DEF ReceiveDirect, TypeOK, AnswerInv, Ways
  <2>2. CASE ReceiveRelay
    BY <1>3, <2>2 DEF ReceiveRelay, TypeOK, AnswerInv, Ways
  <2> QED
    BY <2>1, <2>2
<1> QED
  BY <1>2, <1>4, TypeCorrect, PTL DEF Spec, ResolvedWasHandled
=============================================================================
