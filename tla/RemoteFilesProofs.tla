-------------------------- MODULE RemoteFilesProofs --------------------------
(***************************************************************************)
(* Theorems about RemoteFiles: transfers are whole and overwrite nothing,  *)
(* for files and parts of any size and any number of handlers.             *)
(***************************************************************************)
EXTENDS RemoteFiles, FiniteSetTheorems, SequenceTheorems, TLAPS

\* The first n units of a file, or all of it.
Upto(f, n) == [i \in 1..(IF n < Len(f) THEN n ELSE Len(f)) |-> f[i]]

Reply    == [id : Nat, ok : BOOLEAN, result : Results]
Listings == [dir : Dirs, rows : Rows]
Parts    == [data : Contents, eof : BOOLEAN, from : Paths \X Contents]

\* What the device says about a part that begins at off.
PartOf(r, off) ==
    /\ r \in Parts
    /\ r.data = ReadData(r.from[2], off) /\ r.eof = Eof(r.from[2], off)

Given(s) == {s[i] : i \in 1..Len(s)}

Types ==
    /\ {open, busy, loading} \subseteq BOOLEAN
    /\ current \in Dirs \cup {None} /\ shown \in Rows
    /\ files \in [Paths -> Contents \cup {None, Folder}]
    /\ queue \in Seq(Calls) /\ answers \in Seq(Reply)
    /\ task \in [Tasks -> Handler \cup {None}]
    /\ clicks \in 0..MaxClicks /\ elsewhere \in 0..MaxElsewhere
    /\ mine \subseteq Paths

\* The one transfer there can be.
Transfer(t) == task[t] # None /\ task[t].kind \in {"download", "upload"}

BusyInv ==
    /\ \A t \in Tasks : Transfer(t) => busy
    /\ busy => \E t \in Tasks : Transfer(t)
    /\ \A t, u \in Tasks : Transfer(t) /\ Transfer(u) => t = u

\* A call that asks for something the device knows.
Known(c) ==
    /\ IF c.op = "list" THEN c.path \in Dirs ELSE c.path \in Paths
    /\ c.op = "rename" => c.target \in Paths

\* A "write", even one that was given up, writes to a file an upload created:
\* it was sent when the device had nothing to do but listings.
CallInv ==
    \A i \in 1..Len(queue) :
        /\ Known(queue[i])
        /\ queue[i].op = "write" =>
              queue[i].path \in mine /\ \A j \in 1..Len(queue) : j < i => queue[j].op = "list"

Shape(k) ==
    /\ k.kind = "load" => k.phase = "list"
    /\ k.kind = "change" => k.phase \in {"rename", "delete", "mkdir", "list"}
    /\ k.kind = "download" => k.phase = "read" /\ k.path \in Paths
    /\ k.kind = "upload" => k.phase \in {"create", "write", "list"} /\ k.path \in Paths

OthersList(q, i) == \A j \in 1..Len(q) : j # i => q[j].op = "list"

\* The device has the first n units of the upload k, in a file of its own.
Sent(k, n, F, M) == k.path \in M /\ F[k.path] = Upto(k.data, n)

\* If the call that handler k awaits is still in q it is what k asked for, and
\* behind it the device finds nothing that could touch the upload.
Asks(k, q, i, F, M) ==
    /\ q[i].op = k.phase
    /\ k.phase = "read" => q[i].off = k.off
    /\ k.phase \in {"create", "write"} => q[i].path = k.path
    /\ k.phase = "create" => \A j \in 1..Len(q) : i < j => q[j].op = "list"
    /\ k.phase = "write" => /\ q[i].off = k.off /\ q[i].data = ReadData(k.data, k.off)
                            /\ OthersList(q, i) /\ Sent(k, k.off, F, M)

AskInv(k, q, F, M) == \A i \in 1..Len(q) : q[i].id = k.call => Asks(k, q, i, F, M)

\* If it was carried out, the answer in A says what was done.
Told(k, a, q, F, M) ==
    /\ k.phase = "list" => a.result \in Listings
    /\ k.phase = "read" => PartOf(a.result, k.off)
    /\ k.phase = "create" => OthersList(q, 0) /\ Sent(k, 0, F, M)
    /\ k.phase = "write" => OthersList(q, 0) /\ Sent(k, k.off + Chunk, F, M)

TellInv(k, q, A, F, M) == \A a \in A : a.id = k.call /\ a.ok => Told(k, a, q, F, M)

\* A download has the beginning of the one version it has read, an upload that
\* is listing has sent everything.
OwnInv(k, q, F, M) ==
    /\ k.kind = "download" =>
          /\ k.from = {} => k.off = 0 /\ k.data = <<>>
          /\ \A s \in k.from : k.from = {s} =>
                k.off <= Len(s[2]) /\ k.data = Upto(s[2], k.off)
    /\ k.phase = "write" => k.off < Len(k.data)
    /\ k.kind = "upload" /\ k.phase = "list" =>
          OthersList(q, 0) /\ Sent(k, Len(k.data), F, M)

Fits(k, q, A, F, M) ==
    Shape(k) /\ AskInv(k, q, F, M) /\ TellInv(k, q, A, F, M) /\ OwnInv(k, q, F, M)

HandlerInv ==
    \A t \in Tasks : task[t] # None => Fits(task[t], queue, Given(answers), files, mine)

IndInv == Types /\ BusyInv /\ CallInv /\ HandlerInv
-----------------------------------------------------------------------------
(* Files and their parts.                                                  *)

LEMMA UptoType ==
    ASSUME NEW f \in Contents, NEW n \in Nat
    PROVE  /\ Upto(f, n) \in Contents
           /\ Len(Upto(f, n)) = IF n < Len(f) THEN n ELSE Len(f)
           /\ Upto(f, 0) = <<>>
           /\ n >= Len(f) => Upto(f, n) = f
<1>1. Len(f) \in Nat /\ \A i \in 1..Len(f) : f[i] \in Units
  BY DEF Contents
<1>2. \A i \in 1..(IF n < Len(f) THEN n ELSE Len(f)) : f[i] \in Units
  BY <1>1
<1>3. Upto(f, n) \in Contents /\ Len(Upto(f, n)) = IF n < Len(f) THEN n ELSE Len(f)
  BY <1>1, <1>2 DEF Upto, Contents
<1>4. Upto(f, 0) = <<>>
  BY <1>1 DEF Upto
<1>5. ASSUME n >= Len(f) PROVE Upto(f, n) = f
  BY <1>1, <1>5 DEF Upto, Contents
<1> QED
  BY <1>3, <1>4, <1>5

LEMMA ReadDataType ==
    ASSUME NEW f \in Contents, NEW off \in Nat
    PROVE  LET d == ReadData(f, off) IN
           /\ d \in Contents
           /\ Len(d) = IF off + Chunk < Len(f) THEN Chunk
                       ELSE IF off < Len(f) THEN Len(f) - off ELSE 0
           /\ \A i \in 1..Len(d) : d[i] = f[off + i]
<1>1. Len(f) \in Nat /\ Chunk \in Nat \ {0} /\ \A i \in 1..Len(f) : f[i] \in Units
  BY RemoteFilesConstants DEF Contents
<1> DEFINE n == IF off + Chunk < Len(f) THEN off + Chunk ELSE Len(f)
<1>2. n \in Nat /\ n <= Len(f)
  BY <1>1
<1>3. ReadData(f, off) = [i \in 1..(n - off) |-> f[off + i]]
  BY <1>1, <1>2 DEF ReadData, Contents
<1>4. CASE off < n
  <2>1. n - off \in Nat
    BY <1>2, <1>4
  <2>2. \A i \in 1..(n - off) : f[off + i] \in Units
    BY <1>1, <1>2
  <2> QED
    BY <1>1, <1>2, <1>3, <1>4, <2>1, <2>2 DEF Contents
<1>5. CASE ~ (off < n)
  <2>1. 1..(n - off) = {} /\ ReadData(f, off) = <<>>
    BY <1>2, <1>3, <1>5
  <2> QED
    BY <1>1, <1>5, <2>1 DEF Contents
<1> QED
  BY <1>4, <1>5

\* One more part of an upload.
LEMMA WritePart ==
    ASSUME NEW f \in Contents, NEW off \in Nat, off < Len(f)
    PROVE  Written(Upto(f, off), off, ReadData(f, off)) = Upto(f, off + Chunk)
<1>1. Len(f) \in Nat /\ Chunk \in Nat \ {0} /\ off + Chunk \in Nat
  BY RemoteFilesConstants DEF Contents
<1> DEFINE g == Upto(f, off)  d == ReadData(f, off)
           n == IF off + Chunk < Len(f) THEN off + Chunk ELSE Len(f)
<1>2. Len(g) = off /\ \A i \in 1..off : g[i] = f[i]
  BY <1>1, UptoType DEF Upto
<1>3. Len(d) = n - off /\ \A i \in 1..Len(d) : d[i] = f[off + i]
  BY <1>1, ReadDataType
<1> HIDE DEF g, d
<1>4. off + Len(d) = n /\ n > off /\ n \in Nat
  BY <1>1, <1>3
<1>5. Written(g, off, d) = [i \in 1..n |-> IF i \in (off + 1)..n THEN d[i - off]
                                           ELSE IF i <= off THEN g[i] ELSE Zero]
  BY <1>2, <1>4 DEF Written
<1>6. \A i \in 1..n : i \in (off + 1)..n => d[i - off] = f[i]
  <2> SUFFICES ASSUME NEW i \in (off + 1)..n PROVE d[i - off] = f[i]
    OBVIOUS
  <2>1. i - off \in 1..Len(d) /\ off + (i - off) = i
    BY <1>1, <1>3, <1>4
  <2> QED
    BY <1>3, <2>1
<1>7. \A i \in 1..n : i \notin (off + 1)..n => i <= off /\ g[i] = f[i]
  BY <1>2, <1>4
<1>8. Written(g, off, d) = [i \in 1..n |-> f[i]]
  BY <1>5, <1>6, <1>7
<1> QED
  BY <1>8 DEF Upto, g, d

LEMMA WrittenType ==
    ASSUME NEW f \in Contents, NEW off \in Nat, NEW d \in Contents
    PROVE  Written(f, off, d) \in Contents
<1>1. /\ Len(f) \in Nat /\ \A i \in 1..Len(f) : f[i] \in Units
      /\ Len(d) \in Nat /\ \A i \in 1..Len(d) : d[i] \in Units
      /\ Zero \in Units
  BY RemoteFilesConstants DEF Contents
<1> DEFINE end == off + Len(d)
           n == IF end > Len(f) THEN end ELSE Len(f)
           w(i) == IF i \in (off + 1)..end THEN d[i - off]
                   ELSE IF i <= Len(f) THEN f[i] ELSE Zero
<1>2. n \in Nat
  BY <1>1
<1>3. \A i \in 1..n : w(i) \in Units
  <2> SUFFICES ASSUME NEW i \in 1..n PROVE w(i) \in Units
    OBVIOUS
  <2>1. i \in (off + 1)..end => i - off \in 1..Len(d)
    BY <1>1
  <2>2. i <= Len(f) => i \in 1..Len(f)
    BY <1>1
  <2> QED
    BY <1>1, <2>1, <2>2
<1>4. Written(f, off, d) = [i \in 1..n |-> w(i)]
  BY DEF Written
<1> HIDE DEF n, w
<1> QED
  BY <1>2, <1>3, <1>4 DEF Contents

LEMMA Joined ==
    ASSUME NEW T, NEW g \in Seq(T), NEW d \in Seq(T)
    PROVE  /\ g \o d \in Seq(T) /\ Len(g \o d) = Len(g) + Len(d)
           /\ \A i \in 1..(Len(g) + Len(d)) :
                 (g \o d)[i] = IF i <= Len(g) THEN g[i] ELSE d[i - Len(g)]
OBVIOUS

\* One more part of a download.
LEMMA ReadPart ==
    ASSUME NEW f \in Contents, NEW off \in Nat, off <= Len(f)
    PROVE  LET d == ReadData(f, off) IN
           /\ Upto(f, off) \o d = Upto(f, off + Len(d))
           /\ off + Len(d) <= Len(f)
           /\ Eof(f, off) => off + Len(d) = Len(f)
<1>1. Len(f) \in Nat /\ Chunk \in Nat \ {0}
  BY RemoteFilesConstants DEF Contents
<1> DEFINE g == Upto(f, off)  d == ReadData(f, off)  n == off + Len(d)
<1>2. g \in Contents /\ Len(g) = off /\ \A i \in 1..off : g[i] = f[i]
  BY <1>1, UptoType DEF Upto
<1>3. d \in Contents /\ Len(d) \in Nat /\ \A i \in 1..Len(d) : d[i] = f[off + i]
  BY <1>1, ReadDataType DEF Contents
<1>4. n \in Nat /\ n <= Len(f) /\ (Eof(f, off) => n = Len(f))
  BY <1>1, ReadDataType DEF Eof
<1> HIDE DEF g, d
<1> DEFINE h == g \o d
<1>5. /\ h \in Seq(Units) /\ Len(h) = n
      /\ \A i \in 1..n : h[i] = IF i <= off THEN g[i] ELSE d[i - off]
  BY <1>2, <1>3, Joined DEF Contents
<1> HIDE DEF h
<1>6. \A i \in 1..n : h[i] = f[i]
  <2> SUFFICES ASSUME NEW i \in 1..n PROVE h[i] = f[i]
    OBVIOUS
  <2>1. i > off => i - off \in 1..Len(d) /\ off + (i - off) = i
    BY <1>3, <1>4
  <2>2. i <= off => i \in 1..off
    OBVIOUS
  <2>3. CASE i <= off
    BY <1>2, <1>5, <2>2, <2>3
  <2>4. CASE i > off
    <3>1. h[i] = d[i - off]
      BY <1>5, <2>4
    <3>2. d[i - off] = f[off + (i - off)]
      BY <1>3, <2>1, <2>4
    <3> QED
      BY <2>1, <2>4, <3>1, <3>2
  <2> QED
    BY <1>4, <2>3, <2>4
<1>7. h = [i \in 1..n |-> f[i]]
  BY <1>5, <1>6
<1>8. Upto(f, n) = [i \in 1..n |-> f[i]]
  BY <1>1, <1>4 DEF Upto
<1> QED
  BY <1>4, <1>7, <1>8 DEF g, d, h

(* The queue and the answers.                                              *)

LEMMA AppendCall ==
    ASSUME NEW T, NEW q \in Seq(T), NEW c \in T
    PROVE  LET r == Append(q, c) IN
           /\ r \in Seq(T) /\ Len(q) \in Nat /\ Len(r) = Len(q) + 1
           /\ \A i \in 1..Len(q) : r[i] = q[i] /\ i \in 1..Len(r)
           /\ r[Len(q) + 1] = c
           /\ \A i \in 1..Len(r) : i \in 1..Len(q) \/ i = Len(q) + 1
OBVIOUS

LEMMA TailCall ==
    ASSUME NEW T, NEW q \in Seq(T), q # <<>>
    PROVE  LET r == Tail(q) IN
           /\ r \in Seq(T) /\ Len(q) \in Nat \ {0} /\ Len(r) = Len(q) - 1
           /\ \A i \in 1..Len(r) : r[i] = q[i + 1] /\ i + 1 \in 1..Len(q)
           /\ Head(q) = q[1] /\ Head(q) \in T /\ 1 \in 1..Len(q)
OBVIOUS

LEMMA GivenSteps ==
    ASSUME NEW T, NEW s \in Seq(T)
    PROVE  /\ Given(s) \subseteq T
           /\ \A x \in T : Given(Append(s, x)) = Given(s) \cup {x}
           /\ s # <<>> => Given(Tail(s)) \subseteq Given(s) /\ Head(s) \in Given(s)
<1>1. Given(s) \subseteq T
  BY DEF Given
<1>2. ASSUME NEW x \in T PROVE Given(Append(s, x)) = Given(s) \cup {x}
  <2> DEFINE r == Append(s, x)
  <2>1. /\ \A i \in 1..Len(s) : r[i] = s[i] /\ i \in 1..Len(r)
        /\ r[Len(s) + 1] = x /\ Len(s) + 1 \in 1..Len(r)
        /\ \A i \in 1..Len(r) : i \in 1..Len(s) \/ i = Len(s) + 1
    BY AppendCall
  <2> HIDE DEF r
  <2> QED
    BY <2>1 DEF Given, r
<1>3. ASSUME s # <<>> PROVE Given(Tail(s)) \subseteq Given(s) /\ Head(s) \in Given(s)
  <2> DEFINE r == Tail(s)
  <2>1. /\ \A i \in 1..Len(r) : r[i] = s[i + 1] /\ i + 1 \in 1..Len(s)
        /\ Head(s) = s[1] /\ 1 \in 1..Len(s)
    BY <1>3, TailCall
  <2> HIDE DEF r
  <2> QED
    BY <2>1 DEF Given, r
<1> QED
  BY <1>1, <1>2, <1>3

LEMMA ImageFinite ==
    ASSUME NEW S, IsFiniteSet(S), NEW f
    PROVE  IsFiniteSet({f[s] : s \in S})
<1> DEFINE g == [s \in S |-> f[s]]
<1>1. g \in Surjection(S, {f[s] : s \in S})
  BY DEF Surjection
<1> QED
  BY <1>1, FS_Surjection

\* A new call has a number of its own.
LEMMA FreshIdNew ==
    ASSUME queue \in Seq(Calls), answers \in Seq(Reply),
           task \in [Tasks -> Handler \cup {None}]
    PROVE  FreshId \in Nat /\ FreshId \notin IdsInUse
<1> DEFINE Q == {queue[i].id : i \in DOMAIN queue}
           A == {answers[i].id : i \in DOMAIN answers}
           S == {u \in Tasks : task[u] # None}
           H == {task[t].call : t \in S}
<1>1. IsFiniteSet(Q)
  <2>1. DOMAIN queue = 1..Len(queue) /\ Len(queue) \in Nat
    OBVIOUS
  <2>2. IsFiniteSet(DOMAIN queue)
    BY <2>1, FS_Interval
  <2> DEFINE f == [i \in DOMAIN queue |-> queue[i].id]
  <2>3. IsFiniteSet({f[i] : i \in DOMAIN queue})
    <3> HIDE DEF f
    <3> QED
      BY <2>2, ImageFinite
  <2> QED
    BY <2>3
<1>2. IsFiniteSet(A)
  <2>1. DOMAIN answers = 1..Len(answers) /\ Len(answers) \in Nat
    OBVIOUS
  <2>2. IsFiniteSet(DOMAIN answers)
    BY <2>1, FS_Interval
  <2> DEFINE f == [i \in DOMAIN answers |-> answers[i].id]
  <2>3. IsFiniteSet({f[i] : i \in DOMAIN answers})
    <3> HIDE DEF f
    <3> QED
      BY <2>2, ImageFinite
  <2> QED
    BY <2>3
<1>3. IsFiniteSet(H)
  <2>1. IsFiniteSet(S)
    BY RemoteFilesConstants, FS_Subset
  <2> DEFINE f == [t \in S |-> task[t].call]
  <2>2. IsFiniteSet({f[t] : t \in S})
    <3> HIDE DEF S, f
    <3> QED
      BY <2>1, ImageFinite
  <2> QED
    BY <2>2
<1>4. IsFiniteSet(IdsInUse) /\ Cardinality(IdsInUse) \in Nat
  <2>1. IsFiniteSet(Q \cup A)
    BY <1>1, <1>2, FS_Union
  <2>2. IsFiniteSet((Q \cup A) \cup H)
    BY <1>3, <2>1, FS_Union
  <2>3. IsFiniteSet(IdsInUse)
    BY <2>2 DEF IdsInUse
  <2> QED
    BY <2>3, FS_CardinalityType
<1> DEFINE n == Cardinality(IdsInUse) + 1
<1>a. n \in Nat
  BY <1>4
<1>5. Cardinality(1..n) = n
  <2> HIDE DEF n
  <2> QED
    BY <1>a, FS_Interval
<1>6. \E i \in 1..n : i \notin IdsInUse
  <2> SUFFICES ASSUME 1..n \subseteq IdsInUse PROVE FALSE
    OBVIOUS
  <2>1. Cardinality(1..n) <= Cardinality(IdsInUse)
    BY <1>4, FS_Subset
  <2> QED
    BY <1>4, <1>5, <2>1
<1> HIDE DEF Q, A, S, H
<1>7. FreshId \in 1..n /\ FreshId \notin IdsInUse
  BY <1>6 DEF FreshId
<1> QED
  BY <1>4, <1>7

-----------------------------------------------------------------------------
(* What a handler relies on.                                               *)

LEMMA ShapePhase ==
    ASSUME NEW k \in Handler, Shape(k)
    PROVE  /\ k.phase \in {"create", "write"} => k.kind = "upload"
           /\ k.kind = "upload" => k.phase \in {"create", "write", "list"} /\ k.path \in Paths
           /\ k.phase = "read" <=> k.kind = "download"
BY DEF Handler, Shape, Ops

\* Steps of others: the queue may grow, but behind an upload only by listings.
LEMMA FitsKept ==
    ASSUME NEW k \in Handler, NEW q \in Seq(Calls), NEW r, NEW A, NEW B \in SUBSET A,
           NEW F, NEW G, NEW M, NEW N,
           Fits(k, q, A, F, M),
           \/ r = q
           \/ \E c \in Calls : /\ r = Append(q, c) /\ c.id # k.call
                               /\ k.kind = "upload" => c.op = "list",
           k.path \in M => k.path \in N /\ G[k.path] = F[k.path]
    PROVE  Fits(k, r, B, G, N)
<1>1. /\ \A i \in 1..Len(q) : i \in 1..Len(r) /\ r[i] = q[i]
      /\ \A i \in 1..Len(r) :
            i \in 1..Len(q) \/ (r[i].id # k.call /\ (k.kind = "upload" => r[i].op = "list"))
  <2>1. CASE r = q
    BY <2>1
  <2>2. CASE r # q
    <3>1. PICK c \in Calls : /\ r = Append(q, c) /\ c.id # k.call
                             /\ k.kind = "upload" => c.op = "list"
      BY <2>2
    <3> QED
      BY <3>1, AppendCall
  <2> QED
    BY <2>1, <2>2
<1>2. \A n : Sent(k, n, F, M) => Sent(k, n, G, N)
  BY DEF Sent
<1>3. /\ Shape(k)
      /\ k.phase \in {"create", "write"} => k.kind = "upload"
  BY ShapePhase DEF Fits
<1>4. k.kind = "upload" => \A i : OthersList(q, i) => OthersList(r, i)
  BY <1>1 DEF OthersList
<1>5. AskInv(k, r, G, N)
  <2> SUFFICES ASSUME NEW i \in 1..Len(r), r[i].id = k.call
               PROVE  Asks(k, r, i, G, N)
    BY DEF AskInv
  <2>1. i \in 1..Len(q) /\ r[i] = q[i] /\ q[i].id = k.call
    BY <1>1
  <2>2. Asks(k, q, i, F, M)
    BY <2>1 DEF Fits, AskInv
  <2>3. k.phase = "create" => \A j \in 1..Len(r) : i < j => r[j].op = "list"
    BY <1>1, <1>3, <2>2 DEF Asks
  <2> QED
    BY <1>2, <1>3, <1>4, <2>1, <2>2, <2>3 DEF Asks
<1>6. TellInv(k, r, B, G, N)
  <2>1. TellInv(k, q, A, F, M)
    BY DEF Fits
  <2> QED
    BY <1>2, <1>3, <1>4, <2>1 DEF TellInv, Told
<1>7. OwnInv(k, r, G, N)
  <2>1. OwnInv(k, q, F, M)
    BY DEF Fits
  <2> QED
    BY <1>2, <1>4, <2>1 DEF OwnInv
<1> QED
  BY <1>3, <1>5, <1>6, <1>7 DEF Fits

\* The handler itself asks for something new.
LEMMA FitsAsked ==
    ASSUME NEW k \in Handler, NEW q \in Seq(Calls), NEW c \in Calls, NEW B, NEW F, NEW M,
           c.id = k.call, c.op = k.phase,
           \A i \in 1..Len(q) : q[i].id # k.call,
           \A b \in B : b.id # k.call,
           Shape(k), OwnInv(k, q, F, M),
           k.phase = "read" => c.off = k.off,
           k.phase \in {"create", "write"} => c.path = k.path,
           k.phase = "write" => /\ c.off = k.off /\ c.data = ReadData(k.data, k.off)
                                /\ OthersList(q, 0) /\ Sent(k, k.off, F, M)
    PROVE  Fits(k, Append(q, c), B, F, M)
<1> DEFINE r == Append(q, c)
<1>1. /\ Len(q) \in Nat /\ Len(r) = Len(q) + 1
      /\ \A i \in 1..Len(q) : r[i] = q[i]
      /\ r[Len(q) + 1] = c
      /\ \A i \in 1..Len(r) : i \in 1..Len(q) \/ i = Len(q) + 1
  BY AppendCall
<1> HIDE DEF r
<1>2. \A i \in 1..Len(r) : r[i].id = k.call => i = Len(q) + 1 /\ r[i] = c
  BY <1>1
<1>3. \A j \in 1..Len(r) : ~ (Len(q) + 1 < j)
  BY <1>1
<1>4. OthersList(q, 0) => OthersList(r, Len(q) + 1) /\ (c.op = "list" => OthersList(r, 0))
  BY <1>1 DEF OthersList
<1>5. AskInv(k, r, F, M)
  BY <1>2, <1>3, <1>4 DEF AskInv, Asks
<1>6. TellInv(k, r, B, F, M)
  BY DEF TellInv
<1>7. OwnInv(k, r, F, M)
  BY <1>4 DEF OwnInv
<1> QED
  BY <1>5, <1>6, <1>7 DEF Fits, r

\* The device carries out the call at the head, or fails to.
LEMMA FitsWorked ==
    ASSUME NEW k \in Handler, NEW q \in Seq(Calls), q # <<>>, NEW A, NEW b,
           NEW F, NEW G, NEW M, NEW N,
           Fits(k, q, A, F, M),
           Head(q).op = "list" => G = F /\ N = M,
           b.id = k.call /\ b.ok => Told(k, b, Tail(q), G, N)
    PROVE  Fits(k, Tail(q), A \cup {b}, G, N)
<1> DEFINE r == Tail(q)
<1>1. /\ Len(q) \in Nat \ {0} /\ Len(r) = Len(q) - 1
      /\ \A i \in 1..Len(r) : r[i] = q[i + 1] /\ i + 1 \in 1..Len(q)
      /\ Head(q) = q[1] /\ 1 \in 1..Len(q)
  BY TailCall
<1> HIDE DEF r
<1>2. \A i \in 0..Len(r) : OthersList(q, IF i = 0 THEN 0 ELSE i + 1)
                              => OthersList(r, i) /\ q[1].op = "list"
  <2> SUFFICES ASSUME NEW i \in 0..Len(r), OthersList(q, IF i = 0 THEN 0 ELSE i + 1)
               PROVE  OthersList(r, i) /\ q[1].op = "list"
    OBVIOUS
  <2>1. q[1].op = "list"
    BY <1>1 DEF OthersList
  <2>2. ASSUME NEW j \in 1..Len(r), j # i PROVE r[j].op = "list"
    <3>1. j + 1 \in 1..Len(q) /\ j + 1 # (IF i = 0 THEN 0 ELSE i + 1)
      BY <1>1, <2>2
    <3> QED
      BY <1>1, <3>1 DEF OthersList
  <2> QED
    BY <2>1, <2>2 DEF OthersList
<1>3. OthersList(q, 0) => OthersList(r, 0) /\ G = F /\ N = M
  BY <1>1, <1>2
<1>4. \A i \in 1..Len(r) : OthersList(q, i + 1) => OthersList(r, i) /\ G = F /\ N = M
  BY <1>1, <1>2
<1>5. AskInv(k, r, G, N)
  <2> SUFFICES ASSUME NEW i \in 1..Len(r), r[i].id = k.call
               PROVE  Asks(k, r, i, G, N)
    BY DEF AskInv
  <2>1. i + 1 \in 1..Len(q) /\ r[i] = q[i + 1]
    BY <1>1
  <2>2. Asks(k, q, i + 1, F, M)
    BY <2>1 DEF Fits, AskInv
  <2>3. k.phase = "create" => \A j \in 1..Len(r) : i < j => r[j].op = "list"
    <3> SUFFICES ASSUME k.phase = "create", NEW j \in 1..Len(r), i < j PROVE r[j].op = "list"
      OBVIOUS
    <3>1. i + 1 < j + 1 /\ j + 1 \in 1..Len(q) /\ r[j] = q[j + 1]
      BY <1>1
    <3> QED
      BY <2>2, <3>1 DEF Asks
  <2>4. k.phase = "write" => OthersList(r, i) /\ Sent(k, k.off, G, N)
    BY <1>4, <2>2 DEF Asks
  <2> QED
    BY <2>1, <2>2, <2>3, <2>4 DEF Asks
<1>6. TellInv(k, r, A \cup {b}, G, N)
  <2>1. TellInv(k, q, A, F, M)
    BY DEF Fits
  <2>2. TellInv(k, r, A, G, N)
    BY <1>3, <2>1 DEF TellInv, Told
  <2> QED
    BY <2>2 DEF TellInv, r
<1>7. OwnInv(k, r, G, N)
  <2>1. OwnInv(k, q, F, M)
    BY DEF Fits
  <2> QED
    BY <1>3, <2>1 DEF OwnInv
<1> QED
  BY <1>5, <1>6, <1>7 DEF Fits, r

-----------------------------------------------------------------------------
(* The device.                                                             *)

LEMMA ListingType ==
    ASSUME Types, NEW d \in Dirs
    PROVE  Listing(d) \in Rows
<1>1. ASSUME NEW n \in Names PROVE Entry(files[<<d, n>>]) \in Nat \cup {None, Folder}
  <2>1. files[<<d, n>>] \in Contents \cup {None, Folder}
    BY DEF Types, Paths
  <2> QED
    BY <2>1 DEF Entry, IsFile, Contents
<1> QED
  BY <1>1 DEF Listing, Rows

LEMMA Work ==
    ASSUME Types, NEW c \in Calls, Known(c), Allowed(c)
    PROVE  /\ FilesAfter(c) \in [Paths -> Contents \cup {None, Folder}]
           /\ MineAfter(c) \subseteq Paths
           /\ Result(c) \in Results
           /\ c.op = "list" => /\ FilesAfter(c) = files /\ MineAfter(c) = mine
                               /\ Result(c) \in Listings
           /\ c.op = "read" => PartOf(Result(c), c.off)
<1>1. /\ files \in [Paths -> Contents \cup {None, Folder}] /\ mine \subseteq Paths
      /\ c.op \in Ops /\ c.off \in Nat /\ c.data \in Contents
  BY DEF Types, Calls
<1>2. CASE c.op = "list"
  <2>1. c.path \in Dirs
    BY <1>2 DEF Known
  <2>2. Listing(c.path) \in Rows
    BY <2>1, ListingType
  <2>3. Result(c) = [dir |-> c.path, rows |-> Listing(c.path)]
    BY <1>2 DEF Result
  <2>4. Result(c) \in Listings
    BY <2>1, <2>2, <2>3 DEF Listings
  <2>5. FilesAfter(c) = files /\ MineAfter(c) = mine
    BY <1>2 DEF FilesAfter, MineAfter
  <2> QED
    BY <1>1, <1>2, <2>4, <2>5 DEF Listings, Results
<1>3. CASE c.op = "read"
  <2>1. c.path \in Paths /\ files[c.path] \in Contents
    BY <1>1, <1>3 DEF Known, Allowed, IsFile
  <2>2. ReadData(files[c.path], c.off) \in Contents
    BY <1>1, <2>1, ReadDataType
  <2>3. Result(c) = [data |-> ReadData(files[c.path], c.off),
                     eof  |-> Eof(files[c.path], c.off),
                     from |-> <<c.path, files[c.path]>>]
    BY <1>3 DEF Result
  <2>4. Eof(files[c.path], c.off) \in BOOLEAN
    BY DEF Eof
  <2>5. Result(c) \in Parts
    BY <2>1, <2>2, <2>3, <2>4 DEF Parts
  <2>6. Result(c).from[2] = files[c.path]
    BY <2>3
  <2>7. PartOf(Result(c), c.off)
    BY <2>3, <2>5, <2>6 DEF PartOf
  <2>8. FilesAfter(c) = files /\ MineAfter(c) = mine
    BY <1>3 DEF FilesAfter, MineAfter
  <2> QED
    BY <1>1, <1>3, <2>5, <2>7, <2>8 DEF Parts, Results
<1>4. CASE c.op \notin {"list", "read"}
  <2>1. c.path \in Paths /\ Result(c) = None
    BY <1>4 DEF Known, Result
  <2>2. MineAfter(c) \subseteq Paths
    BY <1>1, <1>4, <2>1 DEF MineAfter, Known, Ops
  <2>3. FilesAfter(c) \in [Paths -> Contents \cup {None, Folder}]
    <3>1. CASE c.op = "create"
      <4>1. FilesAfter(c) = [files EXCEPT ![c.path] = <<>>] /\ <<>> \in Contents
        BY <3>1 DEF FilesAfter, Contents
      <4> QED
        BY <1>1, <4>1
    <3>2. CASE c.op = "write"
      <4>1. files[c.path] \in Contents
        BY <1>1, <2>1, <3>2 DEF Allowed, IsFile
      <4>2. Written(files[c.path], c.off, c.data) \in Contents
        BY <1>1, <4>1, WrittenType
      <4>3. FilesAfter(c) = [files EXCEPT ![c.path] = Written(files[c.path], c.off, c.data)]
        BY <3>2 DEF FilesAfter
      <4> QED
        BY <1>1, <4>2, <4>3
    <3>3. CASE c.op \in {"mkdir", "delete"}
      BY <1>1, <3>3 DEF FilesAfter
    <3>4. CASE c.op = "rename"
      <4>1. files[c.path] \in Contents \cup {None, Folder}
        BY <1>1, <2>1
      <4> QED
        BY <1>1, <3>4, <4>1 DEF FilesAfter
    <3> QED
      BY <1>1, <1>4, <3>1, <3>2, <3>3, <3>4 DEF Ops
  <2> QED
    BY <1>4, <2>1, <2>2, <2>3 DEF Results
<1> QED
  BY <1>2, <1>3, <1>4

\* What the answer tells the handler that waits for it.
LEMMA WorkTold ==
    ASSUME Types, NEW k \in Handler, NEW A, Fits(k, queue, A, files, mine),
           queue # <<>>, Known(Head(queue)), Allowed(Head(queue)), Head(queue).id = k.call,
           NEW b, b.result = Result(Head(queue))
    PROVE  Told(k, b, Tail(queue), FilesAfter(Head(queue)), MineAfter(Head(queue)))
<1> DEFINE c == Head(queue)  r == Tail(queue)
<1>1. /\ files \in [Paths -> Contents \cup {None, Folder}] /\ c \in Calls /\ c = queue[1]
      /\ 1 \in 1..Len(queue) /\ Len(r) = Len(queue) - 1 /\ Len(queue) \in Nat
      /\ \A i \in 1..Len(r) : r[i] = queue[i + 1] /\ i + 1 \in 1..Len(queue)
  BY TailCall DEF Types
<1> HIDE DEF c, r
<1>2. /\ c.op = k.phase
      /\ k.phase = "read" => c.off = k.off
      /\ k.phase \in {"create", "write"} => c.path = k.path
      /\ k.phase = "create" => \A j \in 1..Len(queue) : 1 < j => queue[j].op = "list"
      /\ k.phase = "write" => /\ c.off = k.off /\ c.data = ReadData(k.data, k.off)
                              /\ OthersList(queue, 1) /\ Sent(k, k.off, files, mine)
  BY <1>1 DEF Fits, AskInv, Asks, c
<1>3. /\ c.op = "list" => Result(c) \in Listings
      /\ c.op = "read" => PartOf(Result(c), c.off)
  BY <1>1, Work DEF c
<1>4. k.data \in Contents /\ k.off \in Nat /\ (k.phase = "write" => k.off < Len(k.data))
  BY DEF Handler, Fits, OwnInv
<1>5. ASSUME k.phase \in {"create", "write"} PROVE OthersList(r, 0)
  <2> SUFFICES ASSUME NEW j \in 1..Len(r) PROVE r[j].op = "list"
    BY DEF OthersList
  <2>1. j + 1 \in 1..Len(queue) /\ 1 < j + 1 /\ j + 1 # 1 /\ r[j] = queue[j + 1]
    BY <1>1
  <2> QED
    BY <1>2, <1>5, <2>1 DEF OthersList
<1>6. ASSUME k.phase = "create" PROVE Sent(k, 0, FilesAfter(c), MineAfter(c))
  <2>1. c.path = k.path /\ c.path \in Paths
    BY <1>2, <1>6 DEF Known, c
  <2>2. FilesAfter(c) = [files EXCEPT ![c.path] = <<>>] /\ MineAfter(c) = mine \cup {c.path}
    BY <1>2, <1>6 DEF FilesAfter, MineAfter
  <2>3. Upto(k.data, 0) = <<>>
    BY <1>4, UptoType
  <2> QED
    BY <1>1, <2>1, <2>2, <2>3 DEF Sent
<1>7. ASSUME k.phase = "write" PROVE Sent(k, k.off + Chunk, FilesAfter(c), MineAfter(c))
  <2>1. c.path = k.path /\ c.path \in Paths
    BY <1>2, <1>7 DEF Known, c
  <2>2. k.path \in mine /\ files[k.path] = Upto(k.data, k.off)
    BY <1>2, <1>7 DEF Sent
  <2>3. /\ FilesAfter(c) = [files EXCEPT ![c.path] = Written(files[c.path], c.off, c.data)]
        /\ MineAfter(c) = mine
    BY <1>2, <1>7 DEF FilesAfter, MineAfter
  <2>4. Written(files[k.path], k.off, ReadData(k.data, k.off)) = Upto(k.data, k.off + Chunk)
    BY <1>4, <1>7, <2>2, WritePart
  <2> QED
    BY <1>1, <1>2, <1>7, <2>1, <2>2, <2>3, <2>4 DEF Sent
<1> QED
  BY <1>2, <1>3, <1>5, <1>6, <1>7 DEF Told, c, r

LEMMA DeviceStep ==
    ASSUME IndInv, DeviceWorks
    PROVE  IndInv'
<1> DEFINE c == Head(queue)
<1>1. /\ Types /\ queue # <<>> /\ queue' = Tail(queue) /\ c \in Calls /\ c = queue[1]
      /\ UNCHANGED <<open, current, shown, busy, loading, task, clicks, elsewhere>>
  BY DEF IndInv, Types, DeviceWorks, dialog
<1>2. /\ queue' \in Seq(Calls) /\ Len(queue) \in Nat \ {0} /\ Len(queue') = Len(queue) - 1
      /\ \A i \in 1..Len(queue') : queue'[i] = queue[i + 1] /\ i + 1 \in 1..Len(queue)
      /\ 1 \in 1..Len(queue)
  BY <1>1, TailCall DEF Types
<1>3. Known(c) /\ c.id \in Nat
  BY <1>1, <1>2 DEF IndInv, CallInv, Calls
<1>4. /\ files' \in [Paths -> Contents \cup {None, Folder}] /\ mine' \subseteq Paths
      /\ c.op = "list" => files' = files /\ mine' = mine
  BY <1>1, <1>3, Work DEF DeviceWorks, Types
<1>5. PICK b \in Reply :
         /\ answers' = Append(answers, b) /\ b.id = c.id
         /\ b.ok => /\ Allowed(c) /\ b.result = Result(c)
                    /\ files' = FilesAfter(c) /\ mine' = MineAfter(c)
  <2>1. CASE /\ Allowed(c) /\ files' = FilesAfter(c) /\ mine' = MineAfter(c)
             /\ answers' = Append(answers, [id |-> c.id, ok |-> TRUE, result |-> Result(c)])
    <3>1. [id |-> c.id, ok |-> TRUE, result |-> Result(c)] \in Reply
      BY <1>1, <1>3, <2>1, Work DEF Reply
    <3> QED
      BY <2>1, <3>1
  <2>2. CASE answers' = Append(answers, [id |-> c.id, ok |-> FALSE, result |-> None])
    <3>1. [id |-> c.id, ok |-> FALSE, result |-> None] \in Reply
      BY <1>3 DEF Reply, Results
    <3> QED
      BY <2>2, <3>1
  <2> QED
    BY <2>1, <2>2 DEF DeviceWorks
<1>6. answers' \in Seq(Reply) /\ Given(answers') = Given(answers) \cup {b}
  BY <1>1, <1>5, GivenSteps DEF Types
<1>7. Types'
  BY <1>1, <1>2, <1>4, <1>6 DEF Types
<1>8. BusyInv'
  BY <1>1 DEF IndInv, BusyInv, Transfer
<1>9. CallInv'
  <2> SUFFICES ASSUME NEW i \in 1..Len(queue')
               PROVE  /\ Known(queue'[i])
                      /\ queue'[i].op = "write" =>
                            /\ queue'[i].path \in mine'
                            /\ \A j \in 1..Len(queue') : j < i => queue'[j].op = "list"
    BY DEF CallInv, Known
  <2>1. queue'[i] = queue[i + 1] /\ i + 1 \in 1..Len(queue) /\ 1 < i + 1
    BY <1>2
  <2>2. /\ Known(queue[i + 1])
        /\ queue[i + 1].op = "write" =>
              /\ queue[i + 1].path \in mine
              /\ \A j \in 1..Len(queue) : j < i + 1 => queue[j].op = "list"
    BY <2>1 DEF IndInv, CallInv
  <2>3. ASSUME queue[i + 1].op = "write", NEW j \in 1..Len(queue'), j < i
        PROVE  queue'[j].op = "list"
    <3>1. j + 1 \in 1..Len(queue) /\ j + 1 < i + 1 /\ queue'[j] = queue[j + 1]
      BY <1>2, <2>3
    <3> QED
      BY <2>2, <2>3, <3>1
  <2>4. queue[i + 1].op = "write" => mine' = mine
    BY <1>1, <1>2, <1>4, <2>1, <2>2
  <2> QED
    BY <2>1, <2>2, <2>3, <2>4
<1>10. HandlerInv'
  <2> SUFFICES ASSUME NEW t \in Tasks, task[t] # None
               PROVE  Fits(task[t], queue', Given(answers'), files', mine')
    BY <1>1 DEF HandlerInv
  <2>1. task[t] \in Handler /\ Fits(task[t], queue, Given(answers), files, mine)
    BY <1>1 DEF IndInv, HandlerInv, Types
  <2>2. b.id = task[t].call /\ b.ok => Told(task[t], b, Tail(queue), files', mine')
    BY <1>1, <1>3, <1>5, <2>1, WorkTold
  <2>3. queue \in Seq(Calls)
    BY <1>1 DEF Types
  <2>4. Fits(task[t], Tail(queue), Given(answers) \cup {b}, files', mine')
    BY <1>1, <1>4, <2>1, <2>2, <2>3, FitsWorked
  <2> QED
    BY <1>1, <1>6, <2>4
<1> QED
  BY <1>7, <1>8, <1>9, <1>10 DEF IndInv

-----------------------------------------------------------------------------
(* Steps of the dialog.                                                    *)

\* Whether handler x, if it is one, is a transfer.
Moves(x) == x # None /\ x.kind \in {"download", "upload"}

LEMMA BusyKept ==
    ASSUME Types, BusyInv, NEW t \in Tasks, NEW x, task' = [task EXCEPT ![t] = x],
           \/ busy' = busy /\ (Moves(x) <=> Transfer(t))
           \/ busy' = TRUE /\ ~ busy /\ Moves(x)
    PROVE  BusyInv'
<1>1. /\ Moves(x) <=> Transfer(t)'
      /\ \A u \in Tasks : u # t => (Transfer(u)' <=> Transfer(u))
  BY DEF Types, Transfer, Moves
<1> QED
  BY <1>1 DEF Types, BusyInv

LEMMA BusyEnd ==
    ASSUME Types, BusyInv, NEW t \in Tasks, task[t] # None, End(t)
    PROVE  BusyInv'
<1>1. /\ ~ Transfer(t)' /\ (busy' <=> busy /\ ~ Transfer(t))
      /\ \A u \in Tasks : u # t => (Transfer(u)' <=> Transfer(u))
  BY DEF Types, Transfer, End
<1> QED
  BY <1>1 DEF Types, BusyInv

\* The answers that are left when one of them was taken, or none.
Taken == answers' = answers \/ (answers # <<>> /\ answers' = Tail(answers))

LEMMA TakenGiven ==
    ASSUME Types, Taken
    PROVE  answers' \in Seq(Reply) /\ Given(answers') \subseteq Given(answers)
<1>1. answers \in Seq(Reply)
  BY DEF Types
<1>2. CASE answers' = answers
  BY <1>1, <1>2
<1>3. CASE answers # <<>> /\ answers' = Tail(answers)
  <2>1. Tail(answers) \in Seq(Reply)
    BY <1>1, <1>3
  <2>2. Given(Tail(answers)) \subseteq Given(answers)
    BY <1>1, <1>3, GivenSteps
  <2> QED
    BY <1>3, <2>1, <2>2
<1> QED
  BY <1>2, <1>3 DEF Taken

LEMMA EndStep ==
    ASSUME IndInv, NEW t \in Tasks, task[t] # None, End(t), Taken,
           current' \in Dirs \cup {None}, shown' \in Rows,
           UNCHANGED <<open, clicks, queue, files, mine, elsewhere>>
    PROVE  IndInv'
<1>1. BusyInv'
  BY BusyEnd DEF IndInv
<1>2. Types'
  <2>1. answers' \in Seq(Reply)
    BY TakenGiven DEF IndInv
  <2>2. {busy', loading'} \subseteq BOOLEAN /\ task' \in [Tasks -> Handler \cup {None}]
    BY DEF IndInv, Types, End
  <2> QED
    BY <2>1, <2>2 DEF IndInv, Types
<1>3. CallInv'
  BY DEF IndInv, CallInv
<1>4. HandlerInv'
  <2> SUFFICES ASSUME NEW u \in Tasks, task'[u] # None
               PROVE  Fits(task'[u], queue', Given(answers'), files', mine')
    BY DEF HandlerInv
  <2>1. task'[u] = task[u] /\ task[u] # None
    BY DEF End, IndInv, Types
  <2>2. task[u] \in Handler /\ Fits(task[u], queue, Given(answers), files, mine)
    BY <2>1 DEF IndInv, HandlerInv, Types
  <2>3. Given(answers') \in SUBSET Given(answers) /\ queue \in Seq(Calls)
    BY TakenGiven DEF IndInv, Types
  <2>4. Fits(task[u], queue, Given(answers'), files, mine)
    BY <2>2, <2>3, FitsKept
  <2> QED
    BY <2>1, <2>4
<1> QED
  BY <1>1, <1>2, <1>3, <1>4 DEF IndInv

\* Handler t goes on as k, which has sent the call c.
LEMMA CallStep ==
    ASSUME IndInv, NEW t \in Tasks, NEW k \in Handler, NEW c \in Calls,
           task' = [task EXCEPT ![t] = k], queue' = Append(queue, c), Taken,
           UNCHANGED <<files, mine>>,
           k.call = FreshId, c.id = FreshId, c.op = k.phase, Known(c),
           Shape(k), OwnInv(k, queue, files, mine),
           k.phase = "read" => c.off = k.off,
           k.phase \in {"create", "write"} => c.path = k.path,
           k.phase = "write" => /\ c.off = k.off /\ c.data = ReadData(k.data, k.off)
                                /\ OthersList(queue, 0) /\ Sent(k, k.off, files, mine),
           \A u \in Tasks : u # t /\ task[u] # None /\ task[u].kind = "upload" => c.op = "list"
    PROVE  /\ task' \in [Tasks -> Handler \cup {None}] /\ queue' \in Seq(Calls)
           /\ answers' \in Seq(Reply) /\ CallInv' /\ HandlerInv'
<1>1. /\ Types /\ queue \in Seq(Calls) /\ answers \in Seq(Reply)
      /\ task \in [Tasks -> Handler \cup {None}]
  BY DEF IndInv, Types
<1>2. /\ queue' \in Seq(Calls) /\ Len(queue) \in Nat /\ Len(queue') = Len(queue) + 1
      /\ \A i \in 1..Len(queue) : queue'[i] = queue[i]
      /\ queue'[Len(queue) + 1] = c
      /\ \A i \in 1..Len(queue') : i \in 1..Len(queue) \/ i = Len(queue) + 1
  BY <1>1, AppendCall
<1>3. task' \in [Tasks -> Handler \cup {None}]
  BY <1>1
<1>4. answers' \in Seq(Reply) /\ Given(answers') \in SUBSET Given(answers)
  BY <1>1, TakenGiven
<1>5. /\ \A i \in 1..Len(queue) : queue[i].id # FreshId
      /\ \A b \in Given(answers') : b.id # FreshId
      /\ \A u \in Tasks : task[u] # None => task[u].call # FreshId
  <2>1. FreshId \notin IdsInUse
    BY <1>1, FreshIdNew
  <2>2. \A i \in DOMAIN queue : queue[i].id \in IdsInUse
    BY DEF IdsInUse
  <2>3. \A i \in DOMAIN answers : answers[i].id \in IdsInUse
    BY DEF IdsInUse
  <2>4. \A u \in Tasks : task[u] # None => task[u].call \in IdsInUse
    BY DEF IdsInUse
  <2>5. DOMAIN queue = 1..Len(queue) /\ DOMAIN answers = 1..Len(answers)
    BY <1>1
  <2> QED
    BY <1>4, <2>1, <2>2, <2>3, <2>4, <2>5 DEF Given
<1>6. CallInv'
  <2> SUFFICES ASSUME NEW i \in 1..Len(queue')
               PROVE  /\ Known(queue'[i])
                      /\ queue'[i].op = "write" =>
                            /\ queue'[i].path \in mine
                            /\ \A j \in 1..Len(queue') : j < i => queue'[j].op = "list"
    BY DEF CallInv
  <2>1. CASE i \in 1..Len(queue)
    <3>1. \A j \in 1..Len(queue') : j < i => j \in 1..Len(queue)
      BY <1>2, <2>1
    <3> QED
      BY <1>2, <2>1, <3>1 DEF IndInv, CallInv
  <2>2. CASE i = Len(queue) + 1
    <3>1. queue'[i] = c /\ \A j \in 1..Len(queue') : j < i => j \in 1..Len(queue)
      BY <1>2, <2>2
    <3>2. c.op = "write" => /\ c.path \in mine
                            /\ \A j \in 1..Len(queue) : queue[j].op = "list"
      BY <1>2 DEF OthersList, Sent
    <3> QED
      BY <1>2, <3>1, <3>2
  <2> QED
    BY <1>2, <2>1, <2>2
<1>7. HandlerInv'
  <2> SUFFICES ASSUME NEW u \in Tasks, task'[u] # None
               PROVE  Fits(task'[u], queue', Given(answers'), files, mine)
    BY DEF HandlerInv
  <2>1. CASE u = t
    <3>1. task'[u] = k
      BY <1>1, <2>1
    <3>2. Fits(k, Append(queue, c), Given(answers'), files, mine)
      BY <1>1, <1>5, FitsAsked
    <3> QED
      BY <3>1, <3>2
  <2>2. CASE u # t
    <3>1. task'[u] = task[u] /\ task[u] \in Handler /\ c.id # task[u].call
      BY <1>1, <1>5, <2>2
    <3>2. task[u].kind = "upload" => c.op = "list"
      BY <2>2, <3>1
    <3>3. Fits(task[u], queue, Given(answers), files, mine)
      BY <3>1 DEF IndInv, HandlerInv
    <3>4. Fits(task[u], Append(queue, c), Given(answers'), files, mine)
      BY <1>1, <1>4, <3>1, <3>2, <3>3, FitsKept
    <3> QED
      BY <3>1, <3>4
  <2> QED
    BY <2>1, <2>2
<1> QED
  BY <1>2, <1>3, <1>4, <1>6, <1>7

\* A handler, which may not have sent its first call.
Draft == [kind : {"load", "change", "download", "upload"}, phase : Ops \cup {""}, call : Nat,
          path : Paths \cup {None}, data : Contents, off : Nat,
          from : SUBSET (Paths \X Contents)]

\* A click starts handler t; no transfer is under way.
LEMMA ClickStep ==
    ASSUME IndInv, NEW t \in Tasks, Click(t),
           NEW kind, NEW path \in Paths \cup {None}, NEW data \in Contents,
           NEW op, NEW at \in Dirs \cup Paths, NEW target \in Paths \cup {None},
           Call(t, NewTask(kind, path, data), op, at, target, 0, <<>>),
           \/ kind = "load" /\ op = "list" /\ at \in Dirs
           \/ /\ kind = "change" /\ op \in {"rename", "delete", "mkdir"} /\ at \in Paths
              /\ op = "rename" => target \in Paths
           \/ /\ kind = "download" /\ op = "read" /\ at \in Paths
              /\ path \in Paths /\ data = <<>>
           \/ kind = "upload" /\ op = "create" /\ at \in Paths /\ path = at,
           busy' = IF kind \in {"download", "upload"} THEN TRUE ELSE busy,
           loading' \in BOOLEAN
    PROVE  IndInv'
<1> DEFINE d == NewTask(kind, path, data)
           k == [d EXCEPT !.phase = op, !.call = FreshId]
           c == [id |-> FreshId, op |-> op, path |-> at, target |-> target, off |-> 0,
                 data |-> <<>>]
<1>1. /\ Types /\ queue \in Seq(Calls) /\ answers \in Seq(Reply)
      /\ task \in [Tasks -> Handler \cup {None}] /\ busy = FALSE /\ task[t] = None
      /\ UNCHANGED <<open, current, shown, answers, files, mine, elsewhere>>
      /\ clicks' = clicks + 1 /\ clicks < MaxClicks
  BY DEF IndInv, Types, Click
<1>2. FreshId \in Nat
  BY <1>1, FreshIdNew
<1>3. task' = [task EXCEPT ![t] = k] /\ queue' = Append(queue, c)
  BY DEF Call
<1>4. /\ k \in Handler /\ k.phase = op /\ k.call = FreshId /\ k.kind = kind
      /\ k.path = path /\ k.data = data /\ k.off = 0 /\ k.from = {}
  <2>1. d \in Draft /\ op \in Ops
    BY DEF NewTask, Draft, Ops
  <2>2. /\ d.kind = kind /\ d.path = path /\ d.data = data /\ d.off = 0 /\ d.from = {}
    BY DEF NewTask
  <2> HIDE DEF d
  <2>3. k = [d EXCEPT !.phase = op, !.call = FreshId]
    OBVIOUS
  <2> HIDE DEF k
  <2>4. /\ k \in Handler /\ k.phase = op /\ k.call = FreshId
        /\ k.kind = d.kind /\ k.path = d.path /\ k.data = d.data /\ k.off = d.off
        /\ k.from = d.from
    BY <1>2, <2>1, <2>3 DEF Draft, Handler
  <2> QED
    BY <2>2, <2>4
<1> HIDE DEF k
<1>5. c \in Calls
  <2>1. <<>> \in Contents
    BY DEF Contents
  <2> QED
    BY <1>2, <2>1 DEF Calls, Ops
<1>6. /\ k.call = FreshId /\ c.id = FreshId /\ c.op = k.phase /\ c.off = k.off
      /\ Known(c) /\ Shape(k)
      /\ k.phase # "write" /\ (k.phase = "create" => c.path = k.path)
  BY <1>4 DEF Known, Shape
<1>7. OwnInv(k, queue, files, mine)
  <2>1. k.kind = "download" => k.from = {} /\ k.off = 0 /\ k.data = <<>>
    BY <1>4
  <2>2. k.phase # "write" /\ ~ (k.kind = "upload" /\ k.phase = "list")
    BY <1>4
  <2> QED
    BY <2>1, <2>2 DEF OwnInv
<1>8. \A u \in Tasks : ~ Transfer(u)
  BY <1>1 DEF IndInv, BusyInv
<1>9. \A u \in Tasks : ~ (u # t /\ task[u] # None /\ task[u].kind = "upload")
  BY <1>8 DEF Transfer
<1>10. BusyInv'
  <2>1. Moves(k) <=> kind \in {"download", "upload"}
    BY <1>4, RemoteFilesConstants DEF Moves
  <2> QED
    BY <1>1, <1>3, <1>8, <2>1, BusyKept DEF IndInv
<1> HIDE DEF c
<1>11. /\ task' \in [Tasks -> Handler \cup {None}] /\ queue' \in Seq(Calls)
       /\ answers' \in Seq(Reply) /\ CallInv' /\ HandlerInv'
  BY <1>1, <1>3, <1>4, <1>5, <1>6, <1>7, <1>9, CallStep DEF Taken
<1>12. Types'
  <2>1. clicks' \in 0..MaxClicks
    <3>1. MaxClicks \in Nat /\ clicks \in 0..MaxClicks
      BY <1>1, RemoteFilesConstants DEF Types
    <3> QED
      BY <1>1, <3>1
  <2>2. busy' \in BOOLEAN
    BY <1>1 DEF Types
  <2> QED
    BY <1>1, <1>11, <2>1, <2>2 DEF Types
<1> QED
  BY <1>10, <1>11, <1>12 DEF IndInv

LEMMA Clicks ==
    ASSUME IndInv, NEW t \in Tasks,
           \/ \E d \in Dirs : OpenDirectory(t, d)
           \/ \E n, m \in Names : Rename(t, n, m)
           \/ \E n \in Names : Delete(t, n) \/ Mkdir(t, n) \/ Download(t, n)
           \/ \E n \in Names, f \in Locals : Upload(t, n, f)
    PROVE  IndInv'
<1>1. /\ <<>> \in Contents /\ Locals \subseteq Contents
      /\ \A n \in Names : Join(n) \in Paths
      /\ {busy, loading} \subseteq BOOLEAN
  BY RemoteFilesConstants DEF IndInv, Types, Join, Paths, Contents
<1>2. ASSUME NEW d \in Dirs, OpenDirectory(t, d) PROVE IndInv'
  BY <1>1, <1>2, ClickStep DEF OpenDirectory, Load
<1>3. ASSUME NEW n \in Names, NEW m \in Names, Rename(t, n, m) PROVE IndInv'
  BY <1>1, <1>3, ClickStep DEF Rename
<1>4. ASSUME NEW n \in Names, Delete(t, n) PROVE IndInv'
  BY <1>1, <1>4, ClickStep DEF Delete
<1>5. ASSUME NEW n \in Names, Mkdir(t, n) PROVE IndInv'
  BY <1>1, <1>5, ClickStep DEF Mkdir
<1>6. ASSUME NEW n \in Names, Download(t, n) PROVE IndInv'
  BY <1>1, <1>6, ClickStep DEF Download
<1>7. ASSUME NEW n \in Names, NEW f \in Locals, Upload(t, n, f) PROVE IndInv'
  <2>1. f \in Contents
    BY <1>1
  <2> QED
    BY <1>1, <1>7, <2>1, ClickStep DEF Upload
<1> QED
  BY <1>2, <1>3, <1>4, <1>5, <1>6, <1>7

\* The answer that handler t receives.
LEMMA AnswerOf ==
    ASSUME IndInv, NEW t \in Tasks, NEW phase, NEW ok, Answered(t, phase, ok)
    PROVE  /\ Taken /\ task[t] # None /\ task[t] \in Handler /\ task[t].phase \in phase
           /\ Fits(task[t], queue, Given(answers), files, mine)
           /\ ok = TRUE => Told(task[t], Head(answers), queue, files, mine)
<1>1. /\ answers \in Seq(Reply) /\ answers # <<>> /\ Taken
      /\ task[t] # None /\ task[t] \in Handler /\ task[t].phase \in phase
      /\ task[t].call = Head(answers).id /\ Head(answers).ok = ok
  BY DEF IndInv, Types, Answered, Taken
<1>2. Fits(task[t], queue, Given(answers), files, mine)
  BY <1>1 DEF IndInv, HandlerInv
<1>3. Head(answers) \in Given(answers)
  BY <1>1, GivenSteps
<1>4. ok = TRUE => Told(task[t], Head(answers), queue, files, mine)
  BY <1>1, <1>2, <1>3 DEF Fits, TellInv
<1> QED
  BY <1>1, <1>2, <1>4

LEMMA Ends ==
    ASSUME IndInv, NEW t \in Tasks, Listed(t) \/ Rejected(t) \/ CallTimeout(t)
    PROVE  IndInv'
<1>1. current \in Dirs \cup {None} /\ shown \in Rows
  BY DEF IndInv, Types
<1>2. CASE Listed(t)
  <2>1. Answered(t, {"list"}, TRUE)
    BY <1>2 DEF Listed
  <2>2. /\ Taken /\ task[t] # None /\ task[t].phase \in {"list"}
        /\ Told(task[t], Head(answers), queue, files, mine)
    BY <2>1, AnswerOf
  <2>3. Head(answers).result \in Listings
    BY <2>2 DEF Told
  <2>4. current' \in Dirs /\ shown' \in Rows
    BY <1>2, <2>3 DEF Listed, Listings
  <2> QED
    BY <1>2, <2>2, <2>4, EndStep DEF Listed
<1>3. CASE Rejected(t)
  <2>1. Taken /\ task[t] # None
    BY <1>3, AnswerOf DEF Rejected
  <2> QED
    BY <1>1, <1>3, <2>1, EndStep DEF Rejected
<1>4. CASE CallTimeout(t)
  BY <1>1, <1>4, EndStep DEF CallTimeout, device, Taken
<1> QED
  BY <1>2, <1>3, <1>4

\* Handler t sends its next call, as the draft d of itself.
LEMMA NextCall ==
    ASSUME IndInv, NEW t \in Tasks, task[t] # None, Taken,
           NEW d \in Handler, d.kind = task[t].kind,
           NEW op \in Ops, NEW at \in Dirs \cup Paths, NEW off \in Nat, NEW data \in Contents,
           Call(t, d, op, at, None, off, data),
           op # "rename", IF op = "list" THEN at \in Dirs ELSE at \in Paths,
           \/ d.kind = "change" /\ op = "list"
           \/ d.kind = "download" /\ op = "read" /\ off = d.off /\ d.path \in Paths
           \/ /\ d.kind = "upload" /\ op = "write" /\ off = d.off /\ d.path \in Paths
              /\ at = d.path /\ data = ReadData(d.data, d.off) /\ d.off < Len(d.data)
              /\ OthersList(queue, 0) /\ Sent(d, d.off, files, mine)
           \/ /\ d.kind = "upload" /\ op = "list" /\ d.path \in Paths
              /\ OthersList(queue, 0) /\ Sent(d, Len(d.data), files, mine),
           d.kind = "download" =>
              /\ d.from # {}
              /\ \A s \in d.from : d.from = {s} =>
                    d.off <= Len(s[2]) /\ d.data = Upto(s[2], d.off),
           loading' \in BOOLEAN,
           UNCHANGED <<open, current, shown, busy, clicks, files, mine, elsewhere>>
    PROVE  IndInv'
<1> DEFINE k == [d EXCEPT !.phase = op, !.call = FreshId]
           c == [id |-> FreshId, op |-> op, path |-> at, target |-> None, off |-> off,
                 data |-> data]
<1>1. /\ Types /\ BusyInv /\ task \in [Tasks -> Handler \cup {None}]
  BY DEF IndInv, Types
<1>2. FreshId \in Nat
  BY FreshIdNew DEF IndInv, Types
<1>3. task' = [task EXCEPT ![t] = k] /\ queue' = Append(queue, c)
  BY DEF Call
<1>4. /\ k \in Handler /\ k.phase = op /\ k.call = FreshId /\ k.kind = d.kind
      /\ k.path = d.path /\ k.data = d.data /\ k.off = d.off /\ k.from = d.from
  <2>1. k = [d EXCEPT !.phase = op, !.call = FreshId]
    OBVIOUS
  <2> HIDE DEF k
  <2> QED
    BY <1>2, <2>1 DEF Handler
<1> HIDE DEF k
<1>5. /\ c \in Calls /\ c.id = FreshId /\ c.op = op /\ c.path = at /\ c.off = off
      /\ c.data = data /\ Known(c)
  BY <1>2 DEF Calls, Known
<1> HIDE DEF c
<1>6. \A n : Sent(d, n, files, mine) => Sent(k, n, files, mine)
  BY <1>4 DEF Sent
<1>7. Shape(k)
  BY <1>4 DEF Shape
<1>8. OwnInv(k, queue, files, mine)
  BY <1>4, <1>6 DEF OwnInv
<1>9. k.phase = "write" => /\ c.off = k.off /\ c.data = ReadData(k.data, k.off)
                           /\ OthersList(queue, 0) /\ Sent(k, k.off, files, mine)
  BY <1>4, <1>5, <1>6
<1>10. \A u \in Tasks : u # t /\ task[u] # None /\ task[u].kind = "upload" => c.op = "list"
  <2> SUFFICES ASSUME NEW u \in Tasks, u # t, task[u] # None, task[u].kind = "upload",
                      op # "list"
               PROVE  FALSE
    BY <1>5
  <2>1. Transfer(u) /\ Transfer(t)
    BY DEF Transfer
  <2> QED
    BY <1>1, <2>1 DEF BusyInv
<1>11. BusyInv'
  <2>1. k # None
    BY <1>4, RemoteFilesConstants
  <2>2. Moves(k) <=> Transfer(t)
    BY <1>4, <2>1 DEF Moves, Transfer
  <2> QED
    BY <1>1, <1>3, <2>2, BusyKept
<1>12. /\ task' \in [Tasks -> Handler \cup {None}] /\ queue' \in Seq(Calls)
       /\ answers' \in Seq(Reply) /\ CallInv' /\ HandlerInv'
  <2>1. k.phase = "read" => c.off = k.off
    BY <1>4, <1>5
  <2>2. k.phase \in {"create", "write"} => c.path = k.path
    BY <1>4, <1>5
  <2> QED
    BY <1>3, <1>4, <1>5, <1>7, <1>8, <1>9, <1>10, <2>1, <2>2, CallStep
<1>13. Types'
  BY <1>1, <1>12 DEF Types
<1> QED
  BY <1>11, <1>12, <1>13 DEF IndInv

LEMMA ChangedStep ==
    ASSUME IndInv, NEW t \in Tasks, Changed(t)
    PROVE  IndInv'
<1> DEFINE d == task[t]
<1>1. Answered(t, {"rename", "delete", "mkdir"}, TRUE)
  BY DEF Changed
<1>2. /\ Taken /\ d # None /\ d \in Handler /\ d.phase \in {"rename", "delete", "mkdir"}
      /\ Fits(d, queue, Given(answers), files, mine)
  BY <1>1, AnswerOf
<1>3. d.kind = "change"
  BY <1>2 DEF Fits, Shape, Handler
<1> DEFINE dir == IF current = None THEN Home ELSE current
<1>4. <<>> \in Contents /\ dir \in Dirs
  BY RemoteFilesConstants DEF Contents, IndInv, Types
<1>5. /\ Call(t, d, "list", dir, None, 0, <<>>) /\ loading' = TRUE
      /\ UNCHANGED <<open, current, shown, busy, clicks, files, mine, elsewhere>>
  BY DEF Changed, Reload, Load
<1> HIDE DEF d, dir
<1> QED
  BY <1>2, <1>3, <1>4, <1>5, NextCall DEF Ops, d

\* A download after one more part.
LEMMA DownloadPart ==
    ASSUME NEW k \in Handler, k.kind = "download", NEW q, NEW F, NEW M, OwnInv(k, q, F, M),
           NEW r, PartOf(r, k.off)
    PROVE  LET off == k.off + Len(r.data)
               from == k.from \cup {r.from} IN
           /\ k.data \o r.data \in Contents /\ off \in Nat
           /\ from \in SUBSET (Paths \X Contents) /\ from # {}
           /\ \A s \in from : from = {s} =>
                 /\ off <= Len(s[2]) /\ k.data \o r.data = Upto(s[2], off)
                 /\ r.eof => k.data \o r.data = s[2]
<1> DEFINE off == k.off + Len(r.data)
           from == k.from \cup {r.from}
           g == k.data \o r.data
<1>1. /\ k.data \in Contents /\ k.off \in Nat /\ k.from \in SUBSET (Paths \X Contents)
      /\ r.data \in Contents /\ r.from \in Paths \X Contents
      /\ r.data = ReadData(r.from[2], k.off) /\ r.eof = Eof(r.from[2], k.off)
  BY DEF Handler, PartOf, Parts
<1>2. Len(r.data) \in Nat /\ g \in Contents
  BY <1>1 DEF Contents
<1>3. off \in Nat /\ from \in SUBSET (Paths \X Contents) /\ from # {}
  <2> DEFINE V == Paths \X Contents
  <2>1. k.from \in SUBSET V /\ r.from \in V
    BY <1>1
  <2> HIDE DEF V
  <2>2. from \in SUBSET V /\ from # {}
    BY <2>1
  <2> QED
    BY <1>1, <1>2, <2>2 DEF V
<1>4. ASSUME NEW s \in from, from = {s}
      PROVE  off <= Len(s[2]) /\ g = Upto(s[2], off) /\ (r.eof => g = s[2])
  <2>1. s = r.from /\ (k.from = {} \/ k.from = {s}) /\ s[2] \in Contents
    BY <1>1, <1>4
  <2>2. k.off <= Len(s[2]) /\ k.data = Upto(s[2], k.off)
    <3>1. CASE k.from = {}
      <4>1. k.off = 0 /\ k.data = <<>>
        BY <3>1 DEF OwnInv
      <4>2. Upto(s[2], 0) = <<>> /\ 0 <= Len(s[2])
        BY <2>1, UptoType DEF Contents
      <4> QED
        BY <4>1, <4>2
    <3>2. CASE k.from = {s}
      BY <3>2 DEF OwnInv
    <3> QED
      BY <2>1, <3>1, <3>2
  <2>3. /\ Upto(s[2], k.off) \o r.data = Upto(s[2], k.off + Len(r.data))
        /\ k.off + Len(r.data) <= Len(s[2])
        /\ Eof(s[2], k.off) => k.off + Len(r.data) = Len(s[2])
    <3> DEFINE f == s[2]
    <3>1. f \in Contents /\ k.off \in Nat /\ k.off <= Len(f) /\ r.data = ReadData(f, k.off)
      BY <1>1, <2>1, <2>2
    <3> HIDE DEF f
    <3>2. /\ Upto(f, k.off) \o r.data = Upto(f, k.off + Len(r.data))
          /\ k.off + Len(r.data) <= Len(f)
          /\ Eof(f, k.off) => k.off + Len(r.data) = Len(f)
      BY <3>1, ReadPart
    <3> QED
      BY <3>2 DEF f
  <2>4. Upto(s[2], Len(s[2])) = s[2]
    BY <2>1, UptoType DEF Contents
  <2>5. r.eof = Eof(s[2], k.off)
    BY <1>1, <2>1
  <2> QED
    BY <2>2, <2>3, <2>4, <2>5
<1> HIDE DEF off, from, g
<1>5. /\ g \in Contents /\ off \in Nat
      /\ from \in SUBSET (Paths \X Contents) /\ from # {}
      /\ \A s \in from : from = {s} =>
            off <= Len(s[2]) /\ g = Upto(s[2], off) /\ (r.eof => g = s[2])
  BY <1>2, <1>3, <1>4
<1> QED
  BY <1>5 DEF off, from, g

\* The handler of a download when it has taken the next part.
LEMMA DownloadDraft ==
    ASSUME IndInv, NEW t \in Tasks, Answered(t, {"read"}, TRUE),
           NEW k, k = [task[t] EXCEPT !.data = @ \o Head(answers).result.data,
                                      !.off = @ + Len(Head(answers).result.data),
                                      !.from = @ \cup {Head(answers).result.from}]
    PROVE  /\ k \in Handler /\ k.kind = "download" /\ task[t].kind = "download"
           /\ k.path \in Paths /\ k.from # {}
           /\ \A s \in k.from : k.from = {s} =>
                 /\ k.off <= Len(s[2]) /\ k.data = Upto(s[2], k.off)
                 /\ Head(answers).result.eof => k.data = s[2]
<1> DEFINE d == task[t]  r == Head(answers).result
<1>1. /\ d \in Handler /\ d.phase \in {"read"}
      /\ Fits(d, queue, Given(answers), files, mine)
      /\ Told(d, Head(answers), queue, files, mine)
  BY AnswerOf
<1>2. /\ d.kind = "download" /\ d.path \in Paths /\ OwnInv(d, queue, files, mine)
      /\ PartOf(r, d.off)
  <2> HIDE DEF d
  <2> QED
    BY <1>1, ShapePhase DEF Fits, Told, Shape
<1> DEFINE off == d.off + Len(r.data)
           from == d.from \cup {r.from}
           g == d.data \o r.data
<1>3. k = [d EXCEPT !.data = g, !.off = off, !.from = from]
  OBVIOUS
<1> HIDE DEF d, r
<1>4. /\ g \in Contents /\ off \in Nat
      /\ from \in SUBSET (Paths \X Contents) /\ from # {}
      /\ \A s \in from : from = {s} =>
            off <= Len(s[2]) /\ g = Upto(s[2], off) /\ (r.eof => g = s[2])
  BY <1>1, <1>2, DownloadPart
<1> HIDE DEF off, from, g
<1>5. /\ k \in Handler /\ k.kind = d.kind /\ k.path = d.path
      /\ k.data = g /\ k.off = off /\ k.from = from
  BY <1>1, <1>3, <1>4 DEF Handler
<1> QED
  BY <1>2, <1>4, <1>5 DEF d, r

LEMMA PartReadStep ==
    ASSUME IndInv, NEW t \in Tasks, PartRead(t)
    PROVE  IndInv'
<1> DEFINE r == Head(answers).result
           k == [task[t] EXCEPT !.data = @ \o r.data, !.off = @ + Len(r.data),
                                !.from = @ \cup {r.from}]
<1>1. Answered(t, {"read"}, TRUE) /\ Taken /\ task[t] # None
  BY AnswerOf DEF PartRead
<1>2. /\ UNCHANGED <<open, current, shown, clicks, files, mine, elsewhere>>
      /\ \/ End(t) /\ UNCHANGED queue
         \/ /\ Call(t, k, "read", Join(k.path[2]), None, k.off, <<>>)
            /\ UNCHANGED <<busy, loading>>
  BY DEF PartRead
<1>3. k = [task[t] EXCEPT !.data = @ \o Head(answers).result.data,
                          !.off = @ + Len(Head(answers).result.data),
                          !.from = @ \cup {Head(answers).result.from}]
  OBVIOUS
<1> HIDE DEF k, r
<1>4. /\ k \in Handler /\ k.kind = "download" /\ task[t].kind = "download" /\ k.path \in Paths
      /\ k.from # {}
      /\ \A s \in k.from : k.from = {s} => k.off <= Len(s[2]) /\ k.data = Upto(s[2], k.off)
  BY <1>1, <1>3, DownloadDraft
<1>5. current \in Dirs \cup {None} /\ shown \in Rows /\ loading \in BOOLEAN
  BY DEF IndInv, Types
<1>6. CASE End(t) /\ UNCHANGED queue
  BY <1>1, <1>2, <1>5, <1>6, EndStep
<1>7. CASE /\ Call(t, k, "read", Join(k.path[2]), None, k.off, <<>>)
           /\ UNCHANGED <<busy, loading>>
  <2>1. Join(k.path[2]) \in Paths /\ <<>> \in Contents /\ k.off \in Nat
    BY <1>4, <1>5, RemoteFilesConstants DEF Join, Paths, Contents, Handler
  <2> QED
    BY <1>1, <1>2, <1>4, <1>5, <1>7, <2>1, NextCall DEF Ops
<1> QED
  BY <1>2, <1>6, <1>7

LEMMA PartWrittenStep ==
    ASSUME IndInv, NEW t \in Tasks, PartWritten(t)
    PROVE  IndInv'
<1> DEFINE d == task[t]
           n == IF d.phase = "write" THEN d.off + Chunk ELSE 0
           k == [d EXCEPT !.off = n]
<1>1. Answered(t, {"create", "write"}, TRUE)
  BY DEF PartWritten
<1>2. /\ Taken /\ d # None /\ d \in Handler /\ d.phase \in {"create", "write"}
      /\ Fits(d, queue, Given(answers), files, mine)
      /\ Told(d, Head(answers), queue, files, mine)
  BY <1>1, AnswerOf
<1>3. /\ UNCHANGED <<open, current, shown, busy, clicks, files, mine, elsewhere>>
      /\ \/ AllSent(k) /\ Reload(t, k)
         \/ /\ ~ AllSent(k)
            /\ Call(t, k, "write", k.path, None, k.off, ReadData(k.data, k.off))
            /\ UNCHANGED loading
  BY DEF PartWritten
<1> DEFINE dir == IF current = None THEN Home ELSE current
<1>4. dir \in Dirs /\ loading \in BOOLEAN /\ <<>> \in Contents
  BY RemoteFilesConstants DEF IndInv, Types, Contents
<1> HIDE DEF d
<1>5. /\ d.kind = "upload" /\ d.path \in Paths /\ d.off \in Nat /\ d.data \in Contents
      /\ OthersList(queue, 0) /\ Sent(d, n, files, mine)
  <2>1. d.kind = "upload" /\ d.path \in Paths
    BY <1>2, ShapePhase DEF Fits
  <2>2. OthersList(queue, 0) /\ Sent(d, n, files, mine)
    BY <1>2 DEF Told
  <2> QED
    BY <1>2, <2>1, <2>2 DEF Handler
<1>6. n \in Nat
  BY <1>5, RemoteFilesConstants
<1> HIDE DEF n
<1>7. /\ k \in Handler /\ k.kind = "upload" /\ k.path = d.path /\ k.data = d.data /\ k.off = n
      /\ k.path \in Paths /\ k.data \in Contents /\ k.off \in Nat
  <2>1. k \in Handler /\ k.kind = d.kind /\ k.path = d.path /\ k.data = d.data /\ k.off = n
    BY <1>2, <1>6 DEF Handler
  <2> HIDE DEF k
  <2> QED
    BY <1>5, <1>6, <2>1
<1> HIDE DEF k
<1>8. Sent(k, k.off, files, mine)
  BY <1>5, <1>7 DEF Sent
<1>9. k.kind = task[t].kind /\ task[t] # None
  BY <1>2, <1>5, <1>7 DEF d
<1>10. CASE AllSent(k) /\ Reload(t, k)
  <2>1. Upto(k.data, k.off) = k.data /\ Upto(k.data, Len(k.data)) = k.data
    BY <1>7, <1>10, UptoType DEF AllSent, Contents
  <2>2. Sent(k, Len(k.data), files, mine)
    BY <1>8, <2>1 DEF Sent
  <2>3. Call(t, k, "list", dir, None, 0, <<>>) /\ loading' = TRUE
    BY <1>10 DEF Reload, Load
  <2> HIDE DEF dir
  <2> QED
    BY <1>2, <1>3, <1>4, <1>5, <1>7, <1>9, <2>2, <2>3, NextCall DEF Ops
<1>11. CASE /\ ~ AllSent(k)
            /\ Call(t, k, "write", k.path, None, k.off, ReadData(k.data, k.off))
            /\ UNCHANGED loading
  <2>1. k.off < Len(k.data) /\ ReadData(k.data, k.off) \in Contents
    BY <1>7, <1>11, ReadDataType DEF AllSent, Contents
  <2> QED
    BY <1>2, <1>3, <1>4, <1>5, <1>7, <1>8, <1>9, <1>11, <2>1, NextCall DEF Ops
<1> QED
  BY <1>3, <1>10, <1>11

\* Handlers that do not move, while others change what is not theirs.
LEMMA OthersStep ==
    ASSUME IndInv, Taken, UNCHANGED <<dialog, queue, mine>>,
           elsewhere' \in 0..MaxElsewhere,
           files' \in [Paths -> Contents \cup {None, Folder}],
           \A p \in mine : files'[p] = files[p]
    PROVE  IndInv'
<1>1. /\ Types /\ queue \in Seq(Calls) /\ task \in [Tasks -> Handler \cup {None}]
      /\ UNCHANGED <<open, current, shown, busy, loading, task, clicks, queue, mine>>
  BY DEF IndInv, Types, dialog
<1>2. answers' \in Seq(Reply) /\ Given(answers') \in SUBSET Given(answers)
  BY <1>1, TakenGiven
<1>3. Types'
  BY <1>1, <1>2 DEF Types
<1>4. BusyInv' /\ CallInv'
  BY <1>1 DEF IndInv, BusyInv, Transfer, CallInv
<1>5. HandlerInv'
  <2> SUFFICES ASSUME NEW t \in Tasks, task[t] # None
               PROVE  Fits(task[t], queue, Given(answers'), files', mine)
    BY <1>1 DEF HandlerInv
  <2>1. task[t] \in Handler /\ Fits(task[t], queue, Given(answers), files, mine)
    BY <1>1 DEF IndInv, HandlerInv
  <2> QED
    BY <1>1, <1>2, <2>1, FitsKept
<1> QED
  BY <1>3, <1>4, <1>5 DEF IndInv

LEMMA ElsewhereStep ==
    ASSUME IndInv, NEW p \in Touched, NEW f \in Foreign \cup {None}, Elsewhere(p, f)
    PROVE  IndInv'
<1>1. Types /\ f \in Contents \cup {None, Folder} /\ MaxElsewhere \in Nat
  BY RemoteFilesConstants DEF IndInv
<1>2. elsewhere' \in 0..MaxElsewhere
  BY <1>1 DEF Types, Elsewhere
<1>3. /\ files' \in [Paths -> Contents \cup {None, Folder}]
      /\ \A o \in mine : files'[o] = files[o]
  BY <1>1 DEF Types, Elsewhere
<1> QED
  BY <1>2, <1>3, OthersStep DEF Elsewhere, Taken

LEMMA DroppedStep ==
    ASSUME IndInv, AnswerDropped
    PROVE  IndInv'
<1>1. elsewhere' \in 0..MaxElsewhere /\ files' \in [Paths -> Contents \cup {None, Folder}]
  BY DEF IndInv, Types, AnswerDropped
<1> QED
  BY <1>1, OthersStep DEF AnswerDropped, Taken

LEMMA CloseStep ==
    ASSUME IndInv, CloseLink
    PROVE  IndInv'
<1>1. /\ Types /\ queue \in Seq(Calls) /\ open' = FALSE /\ busy' = FALSE /\ loading' = FALSE
      /\ task' = [t \in Tasks |-> None] /\ answers' = <<>>
      /\ UNCHANGED <<current, shown, clicks, files, mine, elsewhere>>
  BY DEF IndInv, Types, CloseLink
<1>2. PICK n \in {0, 1} : n <= Len(queue) /\ queue' = [i \in 1..n |-> queue[i]]
  BY DEF CloseLink
<1>3. /\ queue' \in Seq(Calls) /\ Len(queue') = n
      /\ \A i \in 1..n : queue'[i] = queue[i] /\ i \in 1..Len(queue)
  <2>1. \A i \in 1..n : i \in 1..Len(queue) /\ queue[i] \in Calls
    BY <1>1, <1>2
  <2> QED
    BY <1>1, <1>2, <2>1
<1>4. Types'
  <2>1. answers' \in Seq(Reply) /\ task' \in [Tasks -> Handler \cup {None}]
    BY <1>1
  <2>2. {open', busy', loading'} \subseteq BOOLEAN
    BY <1>1
  <2> QED
    BY <1>1, <1>3, <2>1, <2>2 DEF Types
<1>5. BusyInv'
  BY <1>1 DEF BusyInv, Transfer
<1>6. CallInv'
  BY <1>1, <1>3 DEF IndInv, CallInv
<1>7. HandlerInv'
  BY <1>1 DEF HandlerInv
<1> QED
  BY <1>4, <1>5, <1>6, <1>7 DEF IndInv

LEMMA InitInv ==
    ASSUME Init
    PROVE  IndInv
<1> DEFINE k == [kind |-> "load", phase |-> "list", call |-> 1, path |-> None,
                 data |-> <<>>, off |-> 0, from |-> {}]
           c == [id |-> 1, op |-> "list", path |-> Home, target |-> None, off |-> 0,
                 data |-> <<>>]
<1>1. /\ task = [t \in Tasks |-> IF t = 1 THEN k ELSE None]
      /\ queue = <<c>> /\ answers = <<>>
      /\ open = TRUE /\ busy = FALSE /\ loading = TRUE
  BY Zenon DEF Init
<1>2. k \in Handler /\ c \in Calls
  <2>1. <<>> \in Contents /\ Home \in Dirs /\ {} \in SUBSET (Paths \X Contents)
    BY RemoteFilesConstants DEF Contents
  <2>2. k \in Handler
    BY <2>1 DEF Handler, Ops
  <2>3. c \in Calls
    BY <2>1 DEF Calls, Ops
  <2> QED
    BY <2>2, <2>3
<1>3. /\ k.kind = "load" /\ k.phase = "list" /\ k.call = 1
      /\ c.id = 1 /\ c.op = "list" /\ c.path = Home
  OBVIOUS
<1> HIDE DEF k, c
<1>4. queue \in Seq(Calls) /\ Len(queue) = 1 /\ \A i \in 1..Len(queue) : queue[i] = c
  BY <1>1, <1>2
<1>5. Types
  <2>1. files \in [Paths -> Contents \cup {None, Folder}]
    BY RemoteFilesConstants DEF Init
  <2>2. shown \in Rows
    BY DEF Init, Rows
  <2>3. task \in [Tasks -> Handler \cup {None}] /\ answers \in Seq(Reply)
    BY <1>1, <1>2
  <2>4. {open, busy, loading} \subseteq BOOLEAN
    BY <1>1
  <2>5. clicks \in 0..MaxClicks /\ elsewhere \in 0..MaxElsewhere
    BY RemoteFilesConstants DEF Init
  <2>6. current \in Dirs \cup {None} /\ mine \subseteq Paths
    BY DEF Init
  <2> QED
    BY <1>4, <2>1, <2>2, <2>3, <2>4, <2>5, <2>6 DEF Types
<1>6. BusyInv
  <2>1. \A t \in Tasks : ~ Transfer(t)
    BY <1>1, <1>3 DEF Transfer
  <2> QED
    BY <1>1, <2>1 DEF BusyInv
<1>7. CallInv
  BY <1>3, <1>4, RemoteFilesConstants DEF CallInv, Known
<1>8. HandlerInv
  <2> SUFFICES ASSUME NEW t \in Tasks, task[t] # None
               PROVE  Fits(task[t], queue, Given(answers), files, mine)
    BY DEF HandlerInv
  <2>1. task[t] = k
    BY <1>1
  <2>2. Shape(k)
    BY <1>3 DEF Shape
  <2>3. AskInv(k, queue, files, mine)
    BY <1>3, <1>4 DEF AskInv, Asks
  <2>4. Given(answers) = {}
    BY <1>1 DEF Given
  <2>5. TellInv(k, queue, Given(answers), files, mine)
    BY <2>4 DEF TellInv
  <2>6. OwnInv(k, queue, files, mine)
    BY <1>3 DEF OwnInv
  <2> QED
    BY <2>1, <2>2, <2>3, <2>5, <2>6 DEF Fits
<1> QED
  BY <1>5, <1>6, <1>7, <1>8 DEF IndInv

LEMMA StepInv ==
    ASSUME IndInv, [Next]_vars
    PROVE  IndInv'
<1>1. CASE DeviceWorks
  BY <1>1, DeviceStep
<1>2. ASSUME NEW p \in Touched, NEW f \in Foreign \cup {None}, Elsewhere(p, f) PROVE IndInv'
  BY <1>2, ElsewhereStep
<1>3. ASSUME NEW t \in Tasks,
             \/ \E d \in Dirs : OpenDirectory(t, d)
             \/ \E n, m \in Names : Rename(t, n, m)
             \/ \E n \in Names : Delete(t, n) \/ Mkdir(t, n) \/ Download(t, n)
             \/ \E n \in Names, f \in Locals : Upload(t, n, f)
      PROVE  IndInv'
  BY <1>3, Clicks
<1>4. ASSUME NEW t \in Tasks, TaskStep(t) \/ CallTimeout(t) PROVE IndInv'
  BY <1>4, Ends, ChangedStep, PartReadStep, PartWrittenStep DEF TaskStep
<1>5. CASE AnswerDropped
  BY <1>5, DroppedStep
<1>6. CASE CloseLink
  BY <1>6, CloseStep
<1>7. CASE UNCHANGED vars
  <2>1. /\ UNCHANGED <<dialog, queue, mine>> /\ UNCHANGED files /\ UNCHANGED elsewhere /\ Taken
    BY <1>7 DEF vars, device, Taken
  <2>2. elsewhere \in 0..MaxElsewhere /\ files \in [Paths -> Contents \cup {None, Folder}]
    BY DEF IndInv, Types
  <2> QED
    BY <2>1, <2>2, OthersStep
<1> QED
  BY <1>1, <1>2, <1>3, <1>4, <1>5, <1>6, <1>7 DEF Next

-----------------------------------------------------------------------------
(* The theorems.                                                           *)

(* The invariant behind the other results: every call, answer and handler  *)
(* of the dialog fits the files of the device, at every moment.            *)
THEOREM Invariance == Spec => []IndInv
<1>1. Init => IndInv
  BY InitInv
<1>2. IndInv /\ [Next]_vars => IndInv'
  BY StepInv
<1> QED
  BY <1>1, <1>2, PTL DEF Spec

LEMMA InvTypeOK ==
    ASSUME IndInv
    PROVE  TypeOK
<1> DEFINE S == {t \in Tasks : task[t] # None /\ task[t].kind \in {"download", "upload"}}
<1>1. Cardinality(S) = IF busy THEN 1 ELSE 0
  <2>1. CASE busy
    <3>1. PICK t \in Tasks : Transfer(t)
      BY <2>1 DEF IndInv, BusyInv
    <3>2. S = {t}
      BY <3>1 DEF IndInv, BusyInv, Transfer
    <3> HIDE DEF S
    <3> QED
      BY <2>1, <3>2, FS_Singleton
  <2>2. CASE ~ busy
    <3>1. S = {}
      BY <2>2 DEF IndInv, BusyInv, Transfer
    <3> HIDE DEF S
    <3> QED
      BY <2>2, <3>1, FS_EmptySet
  <2> QED
    BY <2>1, <2>2
<1>2. Types
  BY DEF IndInv
<1> QED
  BY <1>1, <1>2 DEF Types, TypeOK, Reply

(* The dialog and the device keep their types, and at most one transfer    *)
(* runs, exactly while busy is set (remote-ui.js, the handlers).           *)
THEOREM TypeCorrect == Spec => []TypeOK
<1>1. IndInv => TypeOK
  BY InvTypeOK
<1> QED
  BY <1>1, Invariance, PTL

\* A transfer is complete only when its last part or its listing arrives.
LEMMA DoneStep ==
    ASSUME [Next]_vars
    PROVE  \/ UNCHANGED vars
           \/ done' = NoneDone
           \/ \E t \in Tasks : Listed(t) /\ task[t].kind = "upload"
           \/ \E t \in Tasks :
                /\ PartRead(t) /\ Head(answers).result.eof
                /\ LET k == [task[t] EXCEPT !.data = @ \o Head(answers).result.data,
                                            !.off = @ + Len(Head(answers).result.data),
                                            !.from = @ \cup {Head(answers).result.from}] IN
                   done' = [kind |-> "download", path |-> k.path, data |-> k.data,
                            from |-> k.from]
<1>1. ASSUME NEW t \in Tasks, TaskStep(t)
      PROVE  \/ done' = NoneDone
             \/ Listed(t) /\ task[t].kind = "upload"
             \/ /\ PartRead(t) /\ Head(answers).result.eof
                /\ LET k == [task[t] EXCEPT !.data = @ \o Head(answers).result.data,
                                            !.off = @ + Len(Head(answers).result.data),
                                            !.from = @ \cup {Head(answers).result.from}] IN
                   done' = [kind |-> "download", path |-> k.path, data |-> k.data,
                            from |-> k.from]
  <2>1. CASE Listed(t)
    BY <2>1 DEF Listed
  <2>2. CASE PartRead(t)
    BY <2>2 DEF PartRead
  <2>3. CASE Changed(t) \/ PartWritten(t) \/ Rejected(t)
    BY <2>3 DEF Changed, PartWritten, Rejected
  <2> QED
    BY <1>1, <2>1, <2>2, <2>3 DEF TaskStep
<1>2. ASSUME NEW t \in Tasks,
             \/ \E d \in Dirs : OpenDirectory(t, d)
             \/ \E n, m \in Names : Rename(t, n, m)
             \/ \E n \in Names : Delete(t, n) \/ Mkdir(t, n) \/ Download(t, n)
             \/ \E n \in Names, f \in Locals : Upload(t, n, f)
             \/ CallTimeout(t)
      PROVE  done' = NoneDone
  BY <1>2 DEF OpenDirectory, Rename, Delete, Mkdir, Download, Upload, Click, CallTimeout
<1>3. ASSUME NEW p \in Touched, NEW f \in Foreign \cup {None}, Elsewhere(p, f)
      PROVE  done' = NoneDone
  BY <1>3 DEF Elsewhere
<1>4. CASE DeviceWorks \/ AnswerDropped \/ CloseLink
  BY <1>4 DEF DeviceWorks, AnswerDropped, CloseLink
<1> QED
  BY <1>1, <1>2, <1>3, <1>4 DEF Next

LEMMA UploadStep ==
    ASSUME IndInv, UploadedIsComplete, [Next]_vars
    PROVE  UploadedIsComplete'
<1>1. CASE UNCHANGED vars
  BY <1>1 DEF vars, device, UploadedIsComplete
<1>2. CASE done' = NoneDone
  BY <1>2 DEF NoneDone, UploadedIsComplete
<1>3. ASSUME NEW t \in Tasks, Listed(t), task[t].kind = "upload" PROVE UploadedIsComplete'
  <2> DEFINE k == task[t]
  <2>1. /\ k # None /\ k \in Handler /\ k.phase \in {"list"}
        /\ Fits(k, queue, Given(answers), files, mine)
    BY <1>3, AnswerOf DEF Listed
  <2>2. done' = [NoneDone EXCEPT !.kind = "upload", !.path = k.path, !.data = k.data]
    BY <1>3 DEF Listed
  <2>3. files' = files
    BY <1>3 DEF Listed
  <2>4. k.kind = "upload"
    BY <1>3
  <2> HIDE DEF k
  <2>5. files[k.path] = Upto(k.data, Len(k.data)) /\ k.data \in Contents
    BY <2>1, <2>4 DEF Fits, OwnInv, Sent, Handler
  <2>6. Upto(k.data, Len(k.data)) = k.data
    BY <2>5, UptoType DEF Contents
  <2>7. done'.path = k.path /\ done'.data = k.data
    BY <2>2 DEF NoneDone
  <2> QED
    BY <2>3, <2>5, <2>6, <2>7 DEF UploadedIsComplete
<1>4. ASSUME NEW t \in Tasks, NEW p, NEW d, NEW f,
             done' = [kind |-> "download", path |-> p, data |-> d, from |-> f]
      PROVE  UploadedIsComplete'
  BY <1>4 DEF UploadedIsComplete
<1> QED
  BY <1>1, <1>2, <1>3, <1>4, DoneStep

(* Whenever the dialog says that an upload is complete, the device has the *)
(* whole file, for every size of the file and of a part and whatever other *)
(* handlers had sent (remote-ui.js, upload; session.go "create", "write"). *)
THEOREM UploadComplete == Spec => []UploadedIsComplete
<1>1. Init => UploadedIsComplete
  <2>1. Init => done = NoneDone
    BY DEF Init
  <2>2. NoneDone.kind # "upload"
    BY DEF NoneDone
  <2> QED
    BY <2>1, <2>2, Zenon DEF UploadedIsComplete
<1>2. IndInv /\ UploadedIsComplete /\ [Next]_vars => UploadedIsComplete'
  BY UploadStep
<1> QED
  BY <1>1, <1>2, Invariance, PTL DEF Spec

LEMMA DownloadStep ==
    ASSUME IndInv, DownloadedIsComplete, [Next]_vars
    PROVE  DownloadedIsComplete'
<1>1. CASE UNCHANGED vars
  BY <1>1 DEF vars, DownloadedIsComplete
<1>2. CASE done' = NoneDone
  BY <1>2 DEF NoneDone, DownloadedIsComplete
<1>3. ASSUME NEW t \in Tasks, Listed(t), task[t].kind = "upload" PROVE DownloadedIsComplete'
  BY <1>3 DEF Listed, NoneDone, DownloadedIsComplete
<1>4. ASSUME NEW t \in Tasks, PartRead(t), Head(answers).result.eof, NEW k,
             k = [task[t] EXCEPT !.data = @ \o Head(answers).result.data,
                                 !.off = @ + Len(Head(answers).result.data),
                                 !.from = @ \cup {Head(answers).result.from}],
             done' = [kind |-> "download", path |-> k.path, data |-> k.data, from |-> k.from]
      PROVE  DownloadedIsComplete'
  <2>1. Answered(t, {"read"}, TRUE)
    BY <1>4 DEF PartRead
  <2>2. \A s \in k.from : k.from = {s} => k.data = s[2]
    BY <1>4, <2>1, DownloadDraft
  <2>3. done'.from = k.from /\ done'.data = k.data
    BY <1>4
  <2> QED
    BY <2>2, <2>3 DEF DownloadedIsComplete
<1> QED
  BY <1>1, <1>2, <1>3, <1>4, DoneStep

(* A download whose parts all came from one version of one file is that    *)
(* file, for every size of it, full last parts included (session.go        *)
(* "read"; remote-ui.js, download).                                        *)
THEOREM DownloadComplete == Spec => []DownloadedIsComplete
<1>1. Init => DownloadedIsComplete
  <2>1. Init => done = NoneDone
    BY DEF Init
  <2>2. NoneDone.kind # "download"
    BY DEF NoneDone
  <2> QED
    BY <2>1, <2>2, Zenon DEF DownloadedIsComplete
<1>2. IndInv /\ DownloadedIsComplete /\ [Next]_vars => DownloadedIsComplete'
  BY DownloadStep
<1> QED
  BY <1>1, <1>2, Invariance, PTL DEF Spec

LEMMA OverwriteStep ==
    ASSUME IndInv, [Next]_vars, elsewhere' = elsewhere,
           NEW p \in Paths, IsFile(files[p]), p \notin mine
    PROVE  files'[p] \in {files[p], None}
<1>1. CASE DeviceWorks
  <2> DEFINE c == Head(queue)
  <2>1. /\ queue \in Seq(Calls) /\ queue # <<>>
        /\ files \in [Paths -> Contents \cup {None, Folder}]
        /\ UNCHANGED files \/ (Allowed(c) /\ files' = FilesAfter(c))
    BY <1>1 DEF IndInv, Types, DeviceWorks
  <2>2. c \in Calls /\ c = queue[1] /\ 1 \in 1..Len(queue)
    BY <2>1
  <2>3. Known(c) /\ (c.op = "write" => c.path \in mine) /\ c.op \in Ops
    BY <2>2 DEF IndInv, CallInv, Calls
  <2> HIDE DEF c
  <2>4. ASSUME Allowed(c), files' = FilesAfter(c), c.op \in {"create", "mkdir"}
        PROVE  files'[p] = files[p]
    <3>1. c.path # p
      BY <2>4 DEF Allowed, IsFile
    <3> QED
      BY <2>1, <2>4, <3>1 DEF FilesAfter
  <2>5. ASSUME Allowed(c), files' = FilesAfter(c), c.op = "write"
        PROVE  files'[p] = files[p]
    BY <2>1, <2>3, <2>5 DEF FilesAfter
  <2>6. ASSUME Allowed(c), files' = FilesAfter(c), c.op = "rename"
        PROVE  files'[p] \in {files[p], None}
    <3>1. c.target # p /\ c.target \in Paths /\ c.path \in Paths
      BY <2>3, <2>6 DEF Allowed, IsFile, Known
    <3> QED
      BY <2>1, <2>6, <3>1 DEF FilesAfter
  <2>7. ASSUME Allowed(c), files' = FilesAfter(c), c.op = "delete"
        PROVE  files'[p] \in {files[p], None}
    BY <2>1, <2>7 DEF FilesAfter
  <2>8. ASSUME Allowed(c), files' = FilesAfter(c), c.op \in {"list", "read"}
        PROVE  files'[p] = files[p]
    BY <2>8 DEF FilesAfter
  <2> QED
    BY <2>1, <2>3, <2>4, <2>5, <2>6, <2>7, <2>8 DEF Ops
<1>2. ASSUME NEW o \in Touched, NEW f \in Foreign \cup {None}, Elsewhere(o, f) PROVE FALSE
  <2>1. elsewhere \in Nat /\ elsewhere' = elsewhere + 1
    BY <1>2, RemoteFilesConstants DEF IndInv, Types, Elsewhere
  <2> QED
    BY <2>1
<1>3. ASSUME NEW t \in Tasks,
             \/ \E d \in Dirs : OpenDirectory(t, d)
             \/ \E n, m \in Names : Rename(t, n, m)
             \/ \E n \in Names : Delete(t, n) \/ Mkdir(t, n) \/ Download(t, n)
             \/ \E n \in Names, f \in Locals : Upload(t, n, f)
      PROVE  files' = files
  BY <1>3 DEF OpenDirectory, Rename, Delete, Mkdir, Download, Upload, Click
<1>4. ASSUME NEW t \in Tasks, TaskStep(t) \/ CallTimeout(t) PROVE files' = files
  BY <1>4 DEF TaskStep, Listed, Changed, PartRead, PartWritten, Rejected, CallTimeout, device
<1>5. CASE AnswerDropped \/ CloseLink \/ UNCHANGED vars
  BY <1>5 DEF AnswerDropped, CloseLink, vars, device
<1> QED
  BY <1>1, <1>2, <1>3, <1>4, <1>5 DEF Next

(* No call of the dialog, even one that was given up, changes the contents *)
(* of a file that no upload of it created (README 73; session.go "create"  *)
(* with O_EXCL, "write" without O_CREATE).                                 *)
THEOREM NoOverwrite == Spec => UploadsDoNotOverwrite
<1>1. IndInv /\ [Next]_vars =>
        [elsewhere' = elsewhere =>
           \A p \in Paths : IsFile(files[p]) /\ p \notin mine =>
              files'[p] \in {files[p], None}]_vars
  BY OverwriteStep
<1> QED
  BY <1>1, Invariance, PTL DEF Spec, UploadsDoNotOverwrite
=============================================================================
