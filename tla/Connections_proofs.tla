--------------------------- MODULE Connections_proofs ---------------------------
(***************************************************************************)
(* What holds of the sockets of one process and the messages published to  *)
(* them, for any sockets and messages.                                     *)
(*                                                                         *)
(* The list the listener goes through is the one that handlers remove      *)
(* sockets from, so the proof begins with what removing leaves (Removal),  *)
(* by induction over the list: over a set of numbers, since the library's  *)
(* induction theorems take an operator.                                    *)
(*                                                                         *)
(* Four invariants then rest on one another: the types; who is registered  *)
(* (Roll); that an open socket the current message is due to is still      *)
(* before the loop, or was shifted (Owed, in Delivery); and that the       *)
(* messages stand in line from the sockets back to the buffer, each behind *)
(* those published before it (Fifo, in History).  A fifth, that the loop   *)
(* has ahead of it no socket that has the current message (Single), and    *)
(* that the list is no longer than there are sockets, complete them.       *)
(***************************************************************************)
EXTENDS Connections, SequenceTheorems, FiniteSetTheorems, WellFoundedInduction, TLAPS

-------------------------------------------------------------------------------
(* Induction over the natural numbers, from a set of them that is closed *)

Below == OpToRel(<, Nat)

LEMMA LeastNumber ==
  ASSUME NEW T \in SUBSET Nat, T # {}
  PROVE  \E x \in T : \A y \in T : x <= y
  <1>1. \E x \in T : \A y \in T : <<y, x>> \notin Below
    <2>1. IsWellFoundedOn(Below, Nat)
      BY NatLessThanWellFounded DEF Below
    <2> QED
      BY <2>1, WFMin
  <1>2. PICK x \in T : \A y \in T : <<y, x>> \notin Below
    BY <1>1, Zenon
  <1>3. \A a, b \in Nat : b < a => <<b, a>> \in Below
    BY DEF Below, OpToRel
  <1>4. ASSUME NEW y \in T
        PROVE  x <= y
    <2>1. x \in Nat /\ y \in Nat
      OBVIOUS
    <2>2. ~(y < x)
      BY <1>2, <1>3, <2>1, Zenon
    <2> QED
      BY <2>1, <2>2
  <1> QED
    BY <1>4

LEMMA Induction ==
  ASSUME NEW S, NEW top \in Nat, 0 \in S, \A n \in Nat : n \in S /\ n < top => n + 1 \in S
  PROVE  top \in S
  <1> SUFFICES ASSUME top \notin S
               PROVE  FALSE
    OBVIOUS
  <1> DEFINE T == {n \in 0..top : n \notin S}
  <1>1. PICK x \in T : \A y \in T : x <= y
    <2>1. T \in SUBSET Nat /\ T # {}
      OBVIOUS
    <2> HIDE DEF T
    <2> QED
      BY <2>1, LeastNumber
  <1>2. x # 0 /\ x - 1 \in 0..top /\ x - 1 \in S
    BY <1>1
  <1> QED
    BY <1>1, <1>2

-------------------------------------------------------------------------------
(* Lists that grow and shrink *)

Once(q) == \A i, j \in DOMAIN q : q[i] = q[j] => i = j

LEMMA AppendOnce ==
  ASSUME NEW S, NEW q \in Seq(S), NEW x \in S, Once(q), \A i \in DOMAIN q : q[i] # x
  PROVE  /\ Once(Append(q, x))
         /\ Len(Append(q, x)) = Len(q) + 1
         /\ DOMAIN Append(q, x) = 1..(Len(q) + 1)
         /\ \A i \in DOMAIN q : i \in DOMAIN Append(q, x) /\ Append(q, x)[i] = q[i]
         /\ \A i \in DOMAIN Append(q, x) : i \in DOMAIN q \/ (i = Len(q) + 1 /\ Append(q, x)[i] = x)
  <1> DEFINE a == Append(q, x)
  <1>1. /\ Len(q) \in Nat /\ DOMAIN q = 1..Len(q)
        /\ a \in Seq(S) /\ Len(a) = Len(q) + 1
        /\ \A i \in 1..Len(q) : a[i] = q[i]
        /\ a[Len(q) + 1] = x
    BY AppendProperties, LenProperties
  <1> HIDE DEF a
  <1>2. DOMAIN a = 1..(Len(q) + 1)
    BY <1>1, LenProperties
  <1>3. \A i \in DOMAIN a : i \in DOMAIN q \/ (i = Len(q) + 1 /\ a[i] = x)
    BY <1>1, <1>2
  <1>4. Once(a)
    BY <1>1, <1>3 DEF Once
  <1> QED
    BY <1>1, <1>2, <1>3, <1>4 DEF a

LEMMA AppendElements ==
  ASSUME NEW S, NEW q \in Seq(S), NEW x \in S
  PROVE  Elements(Append(q, x)) = Elements(q) \cup {x}
  <1> DEFINE a == Append(q, x)
  <1>1. /\ Len(q) \in Nat /\ DOMAIN q = 1..Len(q)
        /\ a \in Seq(S) /\ Len(a) = Len(q) + 1
        /\ \A i \in 1..Len(q) : a[i] = q[i]
        /\ a[Len(q) + 1] = x
    BY AppendProperties, LenProperties
  <1> HIDE DEF a
  <1>2. DOMAIN a = 1..(Len(q) + 1)
    BY <1>1, LenProperties
  <1>3. Elements(a) = Elements(q) \cup {x}
    BY <1>1, <1>2 DEF Elements
  <1> QED
    BY <1>3 DEF a

LEMMA TailOnce ==
  ASSUME NEW S, NEW q \in Seq(S), q # <<>>, Once(q)
  PROVE  /\ Once(Tail(q))
         /\ 1 \in DOMAIN q /\ Head(q) = q[1]
         /\ \A i \in DOMAIN Tail(q) : /\ i + 1 \in DOMAIN q /\ Tail(q)[i] = q[i + 1]
                                     /\ Tail(q)[i] # Head(q)
  <1> DEFINE t == Tail(q)
  <1>1. /\ Len(q) \in Nat /\ Len(q) # 0 /\ DOMAIN q = 1..Len(q)
        /\ t \in Seq(S) /\ Len(t) = Len(q) - 1
        /\ \A i \in 1..Len(t) : t[i] = q[i + 1]
        /\ Head(q) = q[1]
    BY HeadTailProperties, LenProperties, EmptySeq
  <1> HIDE DEF t
  <1>2. DOMAIN t = 1..(Len(q) - 1)
    BY <1>1, LenProperties
  <1>3. \A i \in DOMAIN t : i + 1 \in DOMAIN q /\ t[i] = q[i + 1] /\ i + 1 # 1
    BY <1>1, <1>2
  <1>4. Once(t)
    <2> SUFFICES ASSUME NEW i \in DOMAIN t, NEW j \in DOMAIN t, t[i] = t[j]
                 PROVE  i = j
      BY DEF Once
    <2>1. i + 1 = j + 1
      BY <1>3 DEF Once
    <2> QED
      BY <1>2, <2>1
  <1>5. \A i \in DOMAIN t : t[i] # Head(q)
    BY <1>1, <1>3 DEF Once
  <1> QED
    BY <1>1, <1>3, <1>4, <1>5 DEF t

-------------------------------------------------------------------------------
(* Removing sockets from the list *)

LEMMA UpTo ==
  ASSUME list \in Seq(Sockets), NEW gone
  PROVE  \E u : /\ u = [n \in 0..Len(list) |->
                          IF n = 0 THEN <<>>
                          ELSE IF list[n] \in gone THEN u[n - 1] ELSE Append(u[n - 1], list[n])]
                /\ Without(gone) = u[Len(list)]
  <1> DEFINE Step(u, n) == IF n = 0 THEN <<>>
                           ELSE IF list[n] \in gone THEN u[n - 1] ELSE Append(u[n - 1], list[n])
             Defined == {n \in Nat : \E u : DOMAIN u = 0..n /\ \A i \in 0..n : u[i] = Step(u, i)}
             upTo == CHOOSE u : u = [n \in 0..Len(list) |-> Step(u, n)]
  <1>1. 0 \in Defined
    <2>1. LET u == [i \in 0..0 |-> <<>>] IN DOMAIN u = 0..0 /\ \A i \in 0..0 : u[i] = Step(u, i)
      OBVIOUS
    <2> QED
      BY <2>1
  <1>2. ASSUME NEW n \in Nat, n \in Defined
        PROVE  n + 1 \in Defined
    <2>1. PICK u : DOMAIN u = 0..n /\ \A i \in 0..n : u[i] = Step(u, i)
      BY <1>2
    <2> DEFINE w == [i \in 0..(n + 1) |-> IF i = n + 1 THEN Step(u, n + 1) ELSE u[i]]
    <2>2. \A i \in 0..n : w[i] = u[i]
      OBVIOUS
    <2>3. \A i \in 0..(n + 1) : Step(w, i) = Step(u, i)
      <3> HIDE DEF w
      <3>1. ASSUME NEW i \in 0..(n + 1), i # 0
            PROVE  w[i - 1] = u[i - 1]
        <4>1. i - 1 \in 0..n
          BY <3>1
        <4> QED
          BY <2>2, <4>1, Zenon
      <3>2. ASSUME NEW i \in 0..(n + 1), i # 0
            PROVE  Step(w, i) = Step(u, i)
        BY <3>1, <3>2, Zenon
      <3>3. Step(w, 0) = Step(u, 0)
        BY Zenon
      <3> QED
        BY <3>2, <3>3, Zenon
    <2>4. \A i \in 0..(n + 1) : w[i] = Step(w, i)
      <3>1. \A i \in 0..(n + 1) : w[i] = IF i = n + 1 THEN Step(u, n + 1) ELSE u[i]
        BY Zenon
      <3>2. \A i \in 0..(n + 1) : i = n + 1 \/ i \in 0..n
        OBVIOUS
      <3> HIDE DEF w
      <3>3. \A i \in 0..(n + 1) : w[i] = Step(u, i)
        <4> HIDE DEF Step
        <4> QED
          BY <2>1, <3>1, <3>2, Zenon
      <3> QED
        BY <2>3, <3>3, Zenon
    <2>5. DOMAIN w = 0..(n + 1)
      OBVIOUS
    <2> HIDE DEF w
    <2>6. n + 1 \in Nat
      OBVIOUS
    <2>7. \E v : DOMAIN v = 0..(n + 1) /\ \A i \in 0..(n + 1) : v[i] = Step(v, i)
      BY <2>4, <2>5, Zenon
    <2> QED
      BY <2>6, <2>7, Zenon
  <1>3. Len(list) \in Defined
    <2> HIDE DEF Defined
    <2> QED
      BY <1>1, <1>2, Induction, LenProperties
  <1>4. \E u : u = [n \in 0..Len(list) |-> Step(u, n)]
    <2>1. PICK u : DOMAIN u = 0..Len(list) /\ \A i \in 0..Len(list) : u[i] = Step(u, i)
      BY <1>3
    <2> QED
      BY <2>1
  <1>5. upTo = [n \in 0..Len(list) |-> Step(upTo, n)]
    BY <1>4, Zenon
  <1>6. Without(gone) = upTo[Len(list)]
    BY Zenon DEF Without
  <1> QED
    BY <1>5, <1>6

\* What Without returns: a list of the sockets that are not gone, each at its place or
\* further to the front, where a prefix of the old list that none of them leaves keeps
\* its place before the others.
Stays(p, gone) == \A j \in 1..p : list[j] \notin gone

Built(w, n, gone) ==
    /\ w \in Seq(Sockets)
    /\ Len(w) <= n
    /\ Once(list) => Once(w)
    /\ \A k \in 1..Len(w) : \E i \in 1..n : k <= i /\ w[k] = list[i] /\ list[i] \notin gone
    /\ \A i \in 1..n : list[i] \notin gone =>
          \E k \in 1..Len(w) : w[k] = list[i] /\ \A p \in 0..(i - 1) : Stays(p, gone) => p < k
    /\ \A p \in 0..n : Stays(p, gone) => p <= Len(w)

LEMMA BuildNext ==
  ASSUME list \in Seq(Sockets), NEW gone, NEW n \in Nat, n < Len(list),
         NEW w, Built(w, n, gone),
         NEW v, v = IF list[n + 1] \in gone THEN w ELSE Append(w, list[n + 1])
  PROVE  Built(v, n + 1, gone)
  <1>1. n + 1 \in 1..Len(list) /\ list[n + 1] \in Sockets
    BY LenProperties
  <1>2. w \in Seq(Sockets) /\ Len(w) \in Nat
    BY LenProperties DEF Built
  <1>3. CASE list[n + 1] \in gone
    <2>1. v = w
      BY <1>3
    <2>2. ~Stays(n + 1, gone)
      BY <1>3 DEF Stays
    <2>3. \A i \in 1..(n + 1) : list[i] \notin gone => i \in 1..n
      BY <1>3
    <2>4. \A p \in 0..(n + 1) : Stays(p, gone) => p \in 0..n
      BY <2>2
    <2>5. \A k \in 1..Len(w) : \E i \in 1..(n + 1) : k <= i /\ w[k] = list[i] /\ list[i] \notin gone
      BY DEF Built
    <2>6. ASSUME NEW i \in 1..(n + 1), list[i] \notin gone
          PROVE  \E k \in 1..Len(w) :
                    w[k] = list[i] /\ \A p \in 0..(i - 1) : Stays(p, gone) => p < k
      <3>1. i \in 1..n
        BY <2>3, <2>6, Zenon
      <3> QED
        BY <2>6, <3>1 DEF Built
    <2>7. \A p \in 0..(n + 1) : Stays(p, gone) => p <= Len(w)
      BY <2>4, Zenon DEF Built
    <2>8. Len(w) <= n + 1
      BY <1>2 DEF Built
    <2>9. Once(list) => Once(w)
      BY DEF Built
    <2>10. Built(w, n + 1, gone)
      BY <1>2, <2>5, <2>6, <2>7, <2>8, <2>9, Zenon DEF Built
    <2> QED
      BY <2>1, <2>10, Zenon
  <1>4. CASE list[n + 1] \notin gone
    <2>1. /\ v = Append(w, list[n + 1])
          /\ v \in Seq(Sockets) /\ Len(v) = Len(w) + 1
          /\ \A k \in 1..Len(w) : v[k] = w[k]
          /\ v[Len(v)] = list[n + 1]
      BY <1>1, <1>2, <1>4, AppendProperties
    <2>2. ASSUME NEW k \in 1..Len(v)
          PROVE  \E i \in 1..(n + 1) : k <= i /\ v[k] = list[i] /\ list[i] \notin gone
      <3>1. CASE k = Len(v)
        <4>1. k <= n + 1
          BY <1>2, <2>1, <3>1 DEF Built
        <4> QED
          BY <1>4, <2>1, <3>1, <4>1
      <3>2. CASE k \in 1..Len(w)
        <4>1. PICK i \in 1..n : k <= i /\ w[k] = list[i] /\ list[i] \notin gone
          BY <3>2 DEF Built
        <4> QED
          BY <2>1, <3>2, <4>1
      <3> QED
        BY <1>2, <2>1, <3>1, <3>2
    <2>3. \A p \in 0..n : Stays(p, gone) => p <= Len(w)
      BY DEF Built
    <2>4. ASSUME NEW i \in 1..(n + 1), list[i] \notin gone
          PROVE  \E k \in 1..Len(v) :
                    v[k] = list[i] /\ \A p \in 0..(i - 1) : Stays(p, gone) => p < k
      <3>1. CASE i = n + 1
        <4>1. \A p \in 0..(i - 1) : Stays(p, gone) => p < Len(v)
          BY <1>2, <2>1, <2>3, <3>1
        <4> QED
          BY <1>2, <2>1, <3>1, <4>1
      <3>2. CASE i \in 1..n
        <4>1. PICK k \in 1..Len(w) : w[k] = list[i] /\ \A p \in 0..(i - 1) : Stays(p, gone) => p < k
          BY <2>4, <3>2 DEF Built
        <4>2. k \in 1..Len(v) /\ v[k] = list[i]
          BY <1>2, <2>1, <4>1
        <4> QED
          BY <4>1, <4>2
      <3> QED
        BY <3>1, <3>2
    <2>5. ASSUME NEW p \in 0..(n + 1), Stays(p, gone)
          PROVE  p <= Len(v)
      <3>1. CASE p \in 0..n
        BY <1>2, <2>1, <2>3, <2>5, <3>1
      <3>2. CASE p = n + 1
        <4>1. Stays(n, gone)
          BY <2>5, <3>2 DEF Stays
        <4>2. n <= Len(w)
          BY <2>3, <4>1
        <4> QED
          BY <1>2, <2>1, <3>2, <4>2
      <3> QED
        BY <3>1, <3>2
    <2>6. Len(v) <= n + 1
      BY <1>2, <2>1 DEF Built
    <2>7. ASSUME Once(list)
          PROVE  Once(v)
      <3>1. ASSUME NEW k \in DOMAIN w
            PROVE  w[k] # list[n + 1]
        <4>1. k \in 1..Len(w)
          BY <1>2, <3>1, LenProperties
        <4>2. PICK i \in 1..n : w[k] = list[i]
          BY <4>1 DEF Built
        <4>3. i \in DOMAIN list /\ n + 1 \in DOMAIN list /\ i # n + 1
          BY <1>1, <4>2, LenProperties
        <4> QED
          BY <2>7, <4>2, <4>3 DEF Once
      <3>2. Once(w)
        BY <2>7 DEF Built
      <3> QED
        BY <1>1, <1>2, <2>1, <3>1, <3>2, AppendOnce
    <2> QED
      BY <2>1, <2>2, <2>4, <2>5, <2>6, <2>7, Zenon DEF Built
  <1> QED
    BY <1>3, <1>4

LEMMA Removal ==
  ASSUME list \in Seq(Sockets), NEW gone
  PROVE  /\ Without(gone) \in Seq(Sockets)
         /\ Elements(Without(gone)) = Elements(list) \ gone
         /\ Once(list) => Once(Without(gone))
         /\ \A k \in DOMAIN Without(gone) :
               \E i \in DOMAIN list : k <= i /\ Without(gone)[k] = list[i]
         /\ \A p \in 0..Len(list), i \in 1..Len(list) :
               Stays(p, gone) /\ p < i /\ list[i] \notin gone =>
                  \E k \in 1..Len(Without(gone)) : p < k /\ Without(gone)[k] = list[i]
  <1>1. PICK u : /\ u = [n \in 0..Len(list) |->
                          IF n = 0 THEN <<>>
                          ELSE IF list[n] \in gone THEN u[n - 1] ELSE Append(u[n - 1], list[n])]
                 /\ Without(gone) = u[Len(list)]
    BY UpTo, Zenon
  <1>2. Len(list) \in Nat /\ DOMAIN list = 1..Len(list)
    BY LenProperties
  <1> DEFINE S == {n \in 0..Len(list) : Built(u[n], n, gone)}
  <1>3. Len(list) \in S
    <2>1. 0 \in S
      <3>1. u[0] = <<>>
        BY <1>1, <1>2
      <3>2. Built(<<>>, 0, gone)
        BY DEF Built, Stays, Once
      <3> QED
        BY <1>2, <3>1, <3>2
    <2>2. ASSUME NEW n \in Nat, n \in S, n < Len(list)
          PROVE  n + 1 \in S
      <3>1. /\ n + 1 \in 0..Len(list) /\ n + 1 # 0 /\ (n + 1) - 1 = n
            /\ Built(u[n], n, gone)
        BY <1>2, <2>2
      <3>2. u[n + 1] = IF list[n + 1] \in gone THEN u[n] ELSE Append(u[n], list[n + 1])
        BY <1>1, <3>1, Zenon
      <3>3. Built(u[n + 1], n + 1, gone)
        BY <2>2, <3>1, <3>2, BuildNext, Zenon
      <3> QED
        BY <3>1, <3>3
    <2> HIDE DEF S
    <2> QED
      BY <1>2, <2>1, <2>2, Induction
  <1>4. Built(Without(gone), Len(list), gone)
    BY <1>1, <1>3, Zenon
  <1> DEFINE w == Without(gone)
  <1> HIDE DEF w
  <1>5. w \in Seq(Sockets) /\ DOMAIN w = 1..Len(w)
    BY <1>4, LenProperties DEF Built, w
  <1>6. Elements(w) = Elements(list) \ gone
    BY <1>2, <1>4, <1>5 DEF Built, Elements, w
  <1>7. ASSUME NEW p \in 0..Len(list), NEW i \in 1..Len(list),
               Stays(p, gone), p < i, list[i] \notin gone
        PROVE  \E k \in 1..Len(w) : p < k /\ w[k] = list[i]
    <2>1. p \in 0..(i - 1)
      BY <1>2, <1>7
    <2> QED
      BY <1>4, <1>7, <2>1 DEF Built, w
  <1>8. \A k \in DOMAIN w : \E i \in DOMAIN list : k <= i /\ w[k] = list[i]
    BY <1>2, <1>4, <1>5 DEF Built, w
  <1>9. Once(list) => Once(w)
    BY <1>4 DEF Built, w
  <1> QED
    BY <1>5, <1>6, <1>7, <1>8, <1>9 DEF w

-------------------------------------------------------------------------------
(* The types *)

LEMMA InitTypeOK == Init => TypeOK
  <1> SUFFICES ASSUME Init
               PROVE  TypeOK
    OBVIOUS
  <1>1. list \in Seq(Sockets) /\ buffer \in Seq(Messages) /\ order \in Seq(Messages)
    BY EmptySeq DEF Init
  <1>2. received \in [Sockets -> Seq(Messages)]
    <2>1. <<>> \in Seq(Messages)
      BY EmptySeq
    <2> QED
      BY <2>1 DEF Init
  <1> QED
    BY <1>1, <1>2 DEF Init, TypeOK

\* A socket that leaves, and the others.
LEMMA Leaving ==
  ASSUME TypeOK, NEW s \in Sockets, NEW from, NEW to \in {"gone", "ended"}, Leaves(s, from, to)
  PROVE  /\ socket' \in [Sockets -> {"new", "open", "gone", "ended"}]
         /\ received' \in [Sockets -> Seq(Messages)]
         /\ due' \in [Sockets -> SUBSET Messages]
         /\ socket[s] \in from /\ socket'[s] = to /\ received'[s] = <<>> /\ due'[s] = {}
         /\ \A q \in Sockets : q # s => /\ socket'[q] = socket[q]
                                      /\ received'[q] = received[q]
                                      /\ due'[q] = due[q]
  <1>1. /\ socket[s] \in from
        /\ socket' = [socket EXCEPT ![s] = to]
        /\ due' = [due EXCEPT ![s] = {}]
        /\ received' = [received EXCEPT ![s] = <<>>]
    BY DEF Leaves, Moves
  <1>2. /\ socket \in [Sockets -> {"new", "open", "gone", "ended"}]
        /\ due \in [Sockets -> SUBSET Messages]
        /\ received \in [Sockets -> Seq(Messages)]
    BY DEF TypeOK
  <1>3. <<>> \in Seq(Messages)
    BY EmptySeq
  <1> QED
    BY <1>1, <1>2, <1>3

LEMMA HandlerTypeOK ==
  ASSUME TypeOK, NEW s \in Sockets, Handler(s)
  PROVE  TypeOK'
  <1> USE DEF TypeOK, socketVars, messageVars, listenerVars, loopVars, clientVars
  <1>1. CASE Register(s)
    <2>1. list' \in Seq(Sockets)
      BY <1>1, AppendProperties DEF Register
    <2> QED
      BY <1>1, <2>1 DEF Register, Moves
  <1>2. CASE ClientLeaves(s) \/ Refuse(s) \/ Breaks(s)
    <2>1. /\ socket' \in [Sockets -> {"new", "open", "gone", "ended"}]
          /\ received' \in [Sockets -> Seq(Messages)]
          /\ due' \in [Sockets -> SUBSET Messages]
      BY <1>2, Leaving DEF ClientLeaves, Refuse, Breaks
    <2>2. broken' \subseteq Sockets
      BY <1>2 DEF ClientLeaves, Refuse, Breaks
    <2>3. UNCHANGED <<audience, list, messageVars, listenerVars, loopVars>>
      BY <1>2 DEF ClientLeaves, Refuse, Breaks
    <2> QED
      BY <2>1, <2>2, <2>3
  <1>3. CASE Disconnect(s)
    <2>1. /\ socket' \in [Sockets -> {"new", "open", "gone", "ended"}]
          /\ received' \in [Sockets -> Seq(Messages)]
          /\ due' \in [Sockets -> SUBSET Messages]
      BY <1>3, Leaving DEF Disconnect
    <2>2. list' \in Seq(Sockets)
      BY <1>3, Removal DEF Disconnect, Removed
    <2>3. /\ detached' \in BOOLEAN
          /\ shifted' \subseteq Messages
          /\ sending = NoMessage => ~detached'
      BY <1>3 DEF Disconnect, Removed
    <2>4. UNCHANGED <<audience, broken, messageVars, listenerVars, sending, pos, failed>>
      BY <1>3 DEF Disconnect
    <2> QED
      BY <2>1, <2>2, <2>3, <2>4
  <1> QED
    BY <1>1, <1>2, <1>3 DEF Handler

LEMMA RequestTypeOK ==
  ASSUME TypeOK, NEW m \in Messages, Request(m)
  PROVE  TypeOK'
  <1> USE DEF TypeOK, socketVars, messageVars, listenerVars, loopVars, clientVars
  <1>1. CASE Commit(m)
    <2>1. order' \in Seq(Messages)
      BY <1>1, AppendProperties DEF Commit
    <2> QED
      BY <1>1, <2>1 DEF Commit
  <1>2. CASE Publish(m)
    <2>1. buffer' \in Seq(Messages)
      BY <1>2, AppendProperties DEF Publish
    <2>2. due' \in [Sockets -> SUBSET Messages] /\ overtaken' \subseteq Messages
      BY <1>2 DEF Publish
    <2> QED
      BY <1>2, <2>1, <2>2 DEF Publish
  <1>3. CASE PublishLost(m)
    BY <1>3 DEF PublishLost
  <1> QED
    BY <1>1, <1>2, <1>3 DEF Request

LEMMA ListenerTypeOK ==
  ASSUME TypeOK, Subscribe \/ ListenerFails \/ Deliver
  PROVE  TypeOK'
  <1> USE DEF TypeOK, socketVars, messageVars, listenerVars, loopVars, clientVars
  <1>1. CASE Subscribe
    BY <1>1 DEF Subscribe
  <1>2. CASE ListenerFails
    <2>1. buffer' \in Seq(Messages)
      BY <1>2, EmptySeq DEF ListenerFails
    <2>2. due' \in [Sockets -> SUBSET Messages]
      BY <1>2 DEF ListenerFails
    <2> QED
      BY <1>2, <2>1, <2>2 DEF ListenerFails
  <1>3. CASE Take
    <2>1. Head(buffer) \in Messages /\ buffer' \in Seq(Messages)
      BY <1>3, HeadTailProperties DEF Take
    <2> QED
      BY <1>3, <2>1, ConnectionsAssumption DEF Take
  <1>4. CASE SendNext
    <2>1. sending \in Messages /\ pos + 1 \in 1..Len(list)
      BY <1>4, LenProperties DEF SendNext, More
    <2>2. list[pos + 1] \in Sockets
      BY <2>1, ElementOfSeq
    <2>3. received' \in [Sockets -> Seq(Messages)]
      <3>1. Append(received[list[pos + 1]], sending) \in Seq(Messages)
        BY <2>1, <2>2, AppendProperties
      <3> QED
        BY <1>4, <3>1 DEF SendNext
    <2>4. failed' \subseteq Sockets /\ pos' \in Nat
      BY <1>4, <2>2 DEF SendNext
    <2> QED
      BY <1>4, <2>3, <2>4 DEF SendNext
  <1>5. CASE Finish
    <2>1. list' \in Seq(Sockets)
      BY <1>5, Removal DEF Finish, LoopEnds
    <2> QED
      BY <1>5, <2>1 DEF Finish, LoopEnds
  <1> QED
    BY <1>1, <1>2, <1>3, <1>4, <1>5 DEF Deliver

\* The state has its type, with nothing to finish when the listener sends nothing.
THEOREM TypeCorrect == Spec => []TypeOK
  <1>1. TypeOK /\ [Next]_vars => TypeOK'
    <2> SUFFICES ASSUME TypeOK, [Next]_vars
                 PROVE  TypeOK'
      OBVIOUS
    <2>1. CASE UNCHANGED vars
      BY <2>1
      DEF vars, TypeOK, socketVars, messageVars, listenerVars, loopVars, clientVars
    <2>2. CASE Next
      BY <2>2, HandlerTypeOK, RequestTypeOK, ListenerTypeOK DEF Next
    <2> QED
      BY <2>1, <2>2
  <1> QED
    BY <1>1, InitTypeOK, PTL DEF Spec

-------------------------------------------------------------------------------
(* Who is registered *)

\* Before it is open a socket is not in the list and nothing is owed to it, and a
\* send fails only to one that is not open any more.
Handled ==
    \A s \in Sockets :
        /\ socket[s] = "new" => due[s] = {}
        /\ socket[s] = "new" => s \notin Elements(list)
        /\ s \in failed => socket[s] \in {"gone", "ended"}

Roll == Handled /\ RegisteredWhileHandled

LEMMA InitRoll == Init => Roll
  BY DEF Init, Roll, Handled, RegisteredWhileHandled, Elements

LEMMA RegisterRoll ==
  ASSUME TypeOK, Roll, NEW s \in Sockets, Register(s)
  PROVE  Roll'
  <1>1. /\ socket[s] = "new" /\ socket'[s] = "open"
        /\ \A q \in Sockets : q # s => socket'[q] = socket[q]
        /\ UNCHANGED <<audience, broken, failed, due>>
    BY DEF Register, Moves, TypeOK, loopVars, clientVars
  <1>2. Elements(list') = Elements(list) \cup {s}
    BY AppendElements DEF Register, TypeOK
  <1>3. Handled'
    BY <1>1, <1>2 DEF Roll, Handled
  <1>4. RegisteredWhileHandled'
    <2> SUFFICES ASSUME NEW q \in Sockets
                 PROVE  /\ socket'[q] = "open" => q \in Elements(list')
                        /\ socket'[q] = "ended" /\ q \in Elements(list')
                              => audience' = "invalid" \/ q \in broken'
      BY DEF RegisteredWhileHandled
    <2>1. CASE q = s
      BY <1>1, <1>2, <2>1
    <2>2. CASE q # s
      BY <1>1, <1>2, <2>2 DEF Roll, RegisteredWhileHandled
    <2> QED
      BY <2>1, <2>2
  <1> QED
    BY <1>3, <1>4 DEF Roll

LEMMA LeavesRoll ==
  ASSUME TypeOK, Roll, NEW s \in Sockets,
         ClientLeaves(s) \/ Disconnect(s) \/ Refuse(s) \/ Breaks(s)
  PROVE  Roll'
  <1>1. PICK to \in {"gone", "ended"} :
             /\ socket'[s] = to /\ due'[s] = {}
             /\ \A q \in Sockets : q # s => socket'[q] = socket[q] /\ due'[q] = due[q]
    <2>1. \E from : \E to \in {"gone", "ended"} : Leaves(s, from, to)
      BY DEF ClientLeaves, Disconnect, Refuse, Breaks
    <2> QED
      BY <2>1, Leaving
  <1>2. UNCHANGED <<audience, failed>>
    BY DEF ClientLeaves, Disconnect, Refuse, Breaks, loopVars
  <1>3. Elements(list') \subseteq Elements(list)
    BY Removal DEF ClientLeaves, Disconnect, Removed, Refuse, Breaks, TypeOK
  <1>4. Handled'
    BY <1>1, <1>2, <1>3 DEF Roll, Handled
  <1>5. CASE ClientLeaves(s)
    <2>1. socket'[s] = "gone" /\ UNCHANGED <<list, broken>>
      BY <1>5, Leaving DEF ClientLeaves
    <2> QED
      BY <1>1, <1>2, <1>4, <2>1 DEF Roll, RegisteredWhileHandled
  <1>6. CASE Disconnect(s)
    <2>1. UNCHANGED broken /\ Elements(list') = Elements(list) \ {s}
      BY <1>6, Removal DEF Disconnect, Removed, TypeOK
    <2> QED
      BY <1>1, <1>2, <1>4, <2>1 DEF Roll, RegisteredWhileHandled
  <1>7. CASE Refuse(s)
    <2>1. audience = "invalid" /\ UNCHANGED <<list, broken>>
      BY <1>7 DEF Refuse
    <2> QED
      BY <1>1, <1>2, <1>4, <2>1 DEF Roll, RegisteredWhileHandled
  <1>8. CASE Breaks(s)
    <2>1. broken' = broken \cup {s} /\ UNCHANGED list
      BY <1>8 DEF Breaks
    <2> QED
      BY <1>1, <1>2, <1>4, <2>1 DEF Roll, RegisteredWhileHandled
  <1> QED
    BY <1>5, <1>6, <1>7, <1>8

LEMMA RequestRoll ==
  ASSUME TypeOK, Roll, NEW m \in Messages, Request(m)
  PROVE  Roll'
  <1>1. UNCHANGED <<audience, list, socket, broken, failed>>
    BY DEF Request, Commit, Publish, PublishLost, socketVars, loopVars
  <1>2. \A s \in Sockets : socket[s] # "open" => due'[s] = due[s]
    BY DEF Request, Commit, Publish, PublishLost, Open, clientVars, TypeOK
  <1> QED
    BY <1>1, <1>2 DEF Roll, Handled, RegisteredWhileHandled

LEMMA ListenerRoll ==
  ASSUME TypeOK, Roll, Subscribe \/ ListenerFails \/ Deliver
  PROVE  Roll'
  <1> USE DEF socketVars, messageVars, listenerVars, loopVars, clientVars
  <1>1. CASE Subscribe \/ ListenerFails \/ Take
    <2>1. UNCHANGED <<audience, list, socket, broken, failed>>
      BY <1>1 DEF Subscribe, ListenerFails, Take
    <2>2. \A s \in Sockets : due'[s] \subseteq due[s]
      <3>1. CASE ListenerFails
        BY <3>1 DEF ListenerFails
      <3>2. CASE Subscribe \/ Take
        BY <3>2 DEF Subscribe, Take
      <3> QED
        BY <1>1, <3>1, <3>2
    <2> QED
      BY <2>1, <2>2 DEF Roll, Handled, RegisteredWhileHandled
  <1>2. CASE SendNext
    <2>1. UNCHANGED <<audience, list, socket, broken, due>>
      BY <1>2 DEF SendNext
    <2>2. list[pos + 1] \in Sockets
      BY <1>2, LenProperties, ElementOfSeq DEF SendNext, More, TypeOK
    <2>3. \A s \in failed' : s \in failed \/ (s = list[pos + 1] /\ socket[s] # "open")
      BY <1>2 DEF SendNext
    <2>4. socket[list[pos + 1]] # "new"
      <3>1. list[pos + 1] \in Elements(list)
        BY <1>2, LenProperties DEF SendNext, More, TypeOK, Elements
      <3> QED
        BY <2>2, <3>1 DEF Roll, Handled
    <2> QED
      BY <2>1, <2>2, <2>3, <2>4 DEF Roll, Handled, RegisteredWhileHandled, TypeOK
  <1>3. CASE Finish
    <2>1. UNCHANGED <<audience, socket, broken, due>> /\ failed' = {}
      BY <1>3 DEF Finish, LoopEnds
    <2>2. Elements(list') = Elements(list) \ failed
      BY <1>3, Removal DEF Finish, LoopEnds, TypeOK
    <2> QED
      BY <2>1, <2>2 DEF Roll, Handled, RegisteredWhileHandled
  <1> QED
    BY <1>1, <1>2, <1>3 DEF Deliver

LEMMA Rolls == Spec => []Roll
  <1>1. TypeOK /\ Roll /\ [Next]_vars => Roll'
    <2> SUFFICES ASSUME TypeOK, Roll, [Next]_vars
                 PROVE  Roll'
      OBVIOUS
    <2>1. CASE UNCHANGED vars
      BY <2>1
      DEF vars, socketVars, loopVars, clientVars, Roll, Handled, RegisteredWhileHandled
    <2>2. CASE Next
      BY <2>2, RegisterRoll, LeavesRoll, RequestRoll, ListenerRoll DEF Next, Handler
    <2> QED
      BY <2>1, <2>2
  <1> QED
    BY <1>1, InitRoll, TypeCorrect, PTL DEF Spec

\* A socket whose client is there stays registered, whoever else is removed by its own
\* handler or by the listener.
THEOREM StaysRegistered == Spec => []RegisteredWhileHandled
  <1>1. Roll => RegisteredWhileHandled
    BY DEF Roll
  <1> QED
    BY <1>1, Rolls, PTL

-------------------------------------------------------------------------------
(* What is delivered *)

Queue ==
    /\ Once(buffer)
    /\ \A i \in DOMAIN buffer : phase[buffer[i]] = "queued"
    /\ sending # NoMessage => phase[sending] = "sending"

\* An open socket that is owed the message being sent is further on in the list,
\* unless it was shifted: the loop will come to it.
Owed ==
    \A s \in Open : sending # NoMessage /\ sending \in due[s] =>
        \/ sending \in Elements(received[s]) \cup shifted
        \/ ~detached /\ \E i \in DOMAIN list : pos < i /\ list[i] = s

Delivery == Queue /\ Owed /\ MissHasCause

LEMMA InitDelivery == Init => Delivery
  BY DEF Init, Delivery, Queue, Once, Owed, MissHasCause, Open

LEMMA RequestQueue ==
  ASSUME TypeOK, Queue, NEW m \in Messages, Request(m)
  PROVE  Queue'
  <1>1. /\ phase[m] \in {"idle", "committed"}
        /\ \A n \in Messages : n # m => phase'[n] = phase[n]
        /\ sending' = sending
    BY DEF Request, Commit, Publish, PublishLost, TypeOK, loopVars
  <1>2. buffer \in Seq(Messages) /\ \A i \in DOMAIN buffer : buffer[i] \in Messages
    BY LenProperties DEF TypeOK
  <1>3. \A i \in DOMAIN buffer : buffer[i] # m
    BY <1>1 DEF Queue
  <1>4. sending # NoMessage => phase'[sending] = "sending"
    BY <1>1 DEF Queue, TypeOK
  <1>5. CASE buffer' = buffer
    BY <1>1, <1>2, <1>3, <1>4, <1>5 DEF Queue
  <1>6. CASE buffer' = Append(buffer, m) /\ phase'[m] = "queued"
    <2>1. /\ Once(buffer')
          /\ \A i \in DOMAIN buffer : buffer'[i] = buffer[i]
          /\ \A i \in DOMAIN buffer' : i \in DOMAIN buffer \/ buffer'[i] = m
      BY <1>2, <1>3, <1>6, AppendOnce DEF Queue
    <2> QED
      BY <1>1, <1>2, <1>3, <1>4, <1>6, <2>1 DEF Queue
  <1> QED
    BY <1>5, <1>6 DEF Request, Commit, Publish, PublishLost, TypeOK, listenerVars

LEMMA ListenerQueue ==
  ASSUME TypeOK, Queue, Subscribe \/ ListenerFails \/ Deliver
  PROVE  Queue'
  <1> USE DEF messageVars, listenerVars, loopVars
  <1>1. buffer \in Seq(Messages) /\ \A i \in DOMAIN buffer : buffer[i] \in Messages
    BY LenProperties DEF TypeOK
  <1>2. CASE Subscribe \/ SendNext
    BY <1>2 DEF Subscribe, SendNext, Queue
  <1>3. CASE ListenerFails
    <2>1. /\ buffer' = <<>> /\ sending' = sending
          /\ \A m \in Messages : phase[m] = "sending" => phase'[m] = "sending"
      BY <1>3 DEF ListenerFails
    <2> QED
      BY <2>1 DEF Queue, Once, TypeOK
  <1>4. CASE Take
    <2>1. /\ buffer # <<>> /\ buffer' = Tail(buffer) /\ sending' = Head(buffer)
          /\ phase' = [phase EXCEPT ![Head(buffer)] = "sending"]
      BY <1>4 DEF Take
    <2>2. /\ Once(buffer') /\ Head(buffer) \in Messages
          /\ \A i \in DOMAIN buffer' : /\ i + 1 \in DOMAIN buffer /\ buffer'[i] = buffer[i + 1]
                                      /\ buffer'[i] # Head(buffer)
      BY <1>1, <2>1, TailOnce DEF Queue
    <2>3. /\ phase'[Head(buffer)] = "sending"
          /\ \A n \in Messages : n # Head(buffer) => phase'[n] = phase[n]
      BY <2>1, <2>2 DEF TypeOK
    <2> QED
      BY <1>1, <2>1, <2>2, <2>3 DEF Queue
  <1>5. CASE Finish
    <2>1. /\ sending' = NoMessage /\ sending \in Messages /\ buffer' = buffer
          /\ phase' = [phase EXCEPT ![sending] = "done"]
      BY <1>5 DEF Finish, LoopEnds, TypeOK
    <2>2. \A n \in Messages : n # sending => phase'[n] = phase[n]
      BY <2>1 DEF TypeOK
    <2>3. \A i \in DOMAIN buffer : buffer[i] # sending
      BY <2>1, ConnectionsAssumption DEF Queue
    <2> QED
      BY <1>1, <2>1, <2>2, <2>3 DEF Queue
  <1> QED
    BY <1>2, <1>3, <1>4, <1>5 DEF Deliver

LEMMA RegisterDelivery ==
  ASSUME TypeOK, Roll, Delivery, NEW s \in Sockets, Register(s)
  PROVE  Delivery'
  <1>1. /\ due[s] = {}
        /\ \A q \in Sockets : q # s => socket'[q] = socket[q]
        /\ UNCHANGED <<phase, buffer, sending, pos, detached, shifted, received, due>>
    BY
    DEF Register, Moves, TypeOK, Roll, Handled, messageVars, listenerVars, loopVars,
        clientVars
  <1>2. \A i \in DOMAIN list : i \in DOMAIN list' /\ list'[i] = list[i]
    <2>1. /\ Len(list) \in Nat /\ DOMAIN list = 1..Len(list)
          /\ list' \in Seq(Sockets) /\ Len(list') = Len(list) + 1
          /\ \A i \in 1..Len(list) : list'[i] = list[i]
      BY AppendProperties, LenProperties DEF Register, TypeOK
    <2>2. DOMAIN list' = 1..(Len(list) + 1)
      BY <2>1, LenProperties
    <2> QED
      BY <2>1, <2>2
  <1>3. \A q \in Open' : q \in Open \/ due'[q] = {}
    BY <1>1 DEF Open
  <1>4. Queue'
    BY <1>1 DEF Delivery, Queue
  <1>5. Owed'
    BY <1>1, <1>2, <1>3 DEF Delivery, Owed
  <1>6. MissHasCause'
    BY <1>1, <1>3 DEF Delivery, MissHasCause
  <1> QED
    BY <1>4, <1>5, <1>6 DEF Delivery

\* The list loses s: what is owed to another comes later still, or was shifted.
LEMMA DisconnectOwed ==
  ASSUME TypeOK, Owed, NEW s \in Sockets, Disconnect(s)
  PROVE  Owed'
  <1>1. /\ \A q \in Open' : /\ q \in Open /\ q # s
                           /\ received'[q] = received[q] /\ due'[q] = due[q]
        /\ UNCHANGED <<sending, pos>> /\ shifted \subseteq shifted'
    <2>1. /\ socket'[s] = "ended" /\ UNCHANGED <<sending, pos>> /\ shifted \subseteq shifted'
          /\ \A q \in Sockets : q # s => /\ socket'[q] = socket[q]
                                       /\ received'[q] = received[q] /\ due'[q] = due[q]
      BY Leaving DEF Disconnect
    <2> QED
      BY <2>1 DEF Open
  <1> SUFFICES ASSUME NEW q \in Open', sending # NoMessage, sending \in due[q],
                      sending \notin Elements(received[q]) \cup shifted'
               PROVE  ~detached' /\ \E k \in DOMAIN list' : pos < k /\ list'[k] = q
    BY <1>1 DEF Owed
  <1>2. ~detached /\ \E i \in DOMAIN list : pos < i /\ list[i] = q
    BY <1>1 DEF Owed
  <1>3. PICK i \in DOMAIN list : pos < i /\ list[i] = q
    BY <1>2
  <1>4. s \notin Taken
    BY DEF Disconnect, TypeOK
  <1>5. Len(list) \in Nat /\ DOMAIN list = 1..Len(list) /\ pos \in Nat /\ list \in Seq(Sockets)
    BY LenProperties DEF TypeOK
  <1>6. Stays(pos, {s}) /\ pos \in 0..Len(list) /\ i \in 1..Len(list) /\ list[i] \notin {s}
    BY <1>1, <1>3, <1>4, <1>5 DEF Stays, Taken
  <1>7. list' = Without({s})
    BY DEF Disconnect, Removed
  <1>8. PICK k \in 1..Len(list') : pos < k /\ list'[k] = q
    BY <1>3, <1>5, <1>6, <1>7, Removal
  <1>9. list' \in Seq(Sockets) /\ DOMAIN list' = 1..Len(list')
    BY <1>5, <1>7, Removal, LenProperties
  <1>10. list' # <<>>
    BY <1>8, EmptySeq
  <1>11. ~detached'
    BY <1>2, <1>7, <1>10 DEF Disconnect, Removed
  <1> QED
    BY <1>8, <1>9, <1>11

LEMMA LeavesDelivery ==
  ASSUME TypeOK, Delivery, NEW s \in Sockets,
         ClientLeaves(s) \/ Disconnect(s) \/ Refuse(s) \/ Breaks(s)
  PROVE  Delivery'
  <1>1. \A q \in Open' : q \in Open /\ received'[q] = received[q] /\ due'[q] = due[q]
    <2>1. \E from : \E to \in {"gone", "ended"} : Leaves(s, from, to)
      BY DEF ClientLeaves, Disconnect, Refuse, Breaks
    <2>2. /\ socket'[s] \in {"gone", "ended"}
          /\ \A q \in Sockets : q # s => /\ socket'[q] = socket[q]
                                       /\ received'[q] = received[q] /\ due'[q] = due[q]
      BY <2>1, Leaving
    <2> QED
      BY <2>2 DEF Open
  <1>2. UNCHANGED <<phase, buffer, sending, pos>> /\ shifted \subseteq shifted'
    BY DEF ClientLeaves, Disconnect, Refuse, Breaks, messageVars, listenerVars, loopVars
  <1>3. Queue'
    BY <1>2 DEF Delivery, Queue
  <1>4. MissHasCause'
    BY <1>1, <1>2 DEF Delivery, MissHasCause
  <1>5. Owed'
    <2>1. CASE Disconnect(s)
      BY <2>1, DisconnectOwed DEF Delivery
    <2>2. CASE ClientLeaves(s) \/ Refuse(s) \/ Breaks(s)
      <3>1. UNCHANGED <<list, detached, shifted>>
        BY <2>2 DEF ClientLeaves, Refuse, Breaks, loopVars
      <3> QED
        BY <1>1, <1>2, <3>1 DEF Delivery, Owed
    <2> QED
      BY <2>1, <2>2
  <1> QED
    BY <1>3, <1>4, <1>5 DEF Delivery

LEMMA RequestDelivery ==
  ASSUME TypeOK, Delivery, NEW m \in Messages, Request(m)
  PROVE  Delivery'
  <1>1. UNCHANGED <<list, socket, sending, pos, detached, shifted, received>>
    BY DEF Request, Commit, Publish, PublishLost, socketVars, loopVars, clientVars
  <1>2. /\ phase[m] \in {"idle", "committed"} /\ phase'[m] \in {"committed", "queued", "lost"}
        /\ \A n \in Messages : n # m => phase'[n] = phase[n]
    BY DEF Request, Commit, Publish, PublishLost, TypeOK
  <1>3. \A s \in Open : due'[s] \subseteq due[s] \cup {m}
    BY DEF Request, Commit, Publish, PublishLost, TypeOK, clientVars, Open
  <1>4. Queue'
    BY RequestQueue DEF Delivery
  <1>5. sending # NoMessage => sending # m
    BY <1>2 DEF Delivery, Queue
  <1>6. Open' = Open
    BY <1>1 DEF Open
  <1>7. Owed'
    BY <1>1, <1>3, <1>5, <1>6 DEF Delivery, Owed
  <1>8. MissHasCause'
    <2> SUFFICES ASSUME NEW s \in Open, NEW n \in due'[s], phase'[n] = "done"
                 PROVE  n \in Elements(received[s]) \cup shifted
      BY <1>1, <1>6 DEF MissHasCause
    <2>1. n # m /\ n \in due[s] /\ n \in Messages
      BY <1>2, <1>3 DEF Open, TypeOK
    <2> QED
      BY <1>2, <2>1 DEF Delivery, MissHasCause
  <1> QED
    BY <1>4, <1>7, <1>8 DEF Delivery

LEMMA SubscriptionDelivery ==
  ASSUME TypeOK, Delivery, Subscribe \/ ListenerFails
  PROVE  Delivery'
  <1>1. /\ UNCHANGED <<list, socket, sending, pos, detached, shifted, received>>
        /\ \A m \in Messages : phase'[m] = "done" => phase[m] = "done"
    BY DEF Subscribe, ListenerFails, socketVars, messageVars, loopVars, clientVars
  <1>2. \A s \in Sockets : due'[s] \subseteq due[s]
    <2>1. CASE Subscribe
      BY <2>1 DEF Subscribe, clientVars
    <2>2. CASE ListenerFails
      BY <2>2 DEF ListenerFails
    <2> QED
      BY <2>1, <2>2
  <1>3. Open' = Open
    BY <1>1 DEF Open
  <1>4. Queue'
    BY ListenerQueue DEF Delivery
  <1>5. Owed'
    BY <1>1, <1>2, <1>3 DEF Delivery, Owed, Open
  <1>6. MissHasCause'
    BY <1>1, <1>2, <1>3 DEF Delivery, MissHasCause, Open, TypeOK
  <1> QED
    BY <1>4, <1>5, <1>6 DEF Delivery

\* The loop begins with every open socket before it.
LEMMA TakeDelivery ==
  ASSUME TypeOK, Roll, Delivery, Take
  PROVE  Delivery'
  <1>1. /\ UNCHANGED <<list, socket, pos, detached, shifted, received, due>>
        /\ phase' = [phase EXCEPT ![Head(buffer)] = "sending"]
        /\ pos = 0 /\ ~detached
    BY DEF Take, TypeOK, socketVars, clientVars
  <1>2. Open' = Open
    BY <1>1 DEF Open
  <1>3. \A s \in Open : \E i \in DOMAIN list : pos < i /\ list[i] = s
    <2>1. \A i \in DOMAIN list : pos < i
      BY <1>1, LenProperties DEF TypeOK
    <2> QED
      BY <2>1 DEF Open, Roll, RegisteredWhileHandled, Elements
  <1>4. Queue'
    BY ListenerQueue DEF Delivery, Deliver
  <1>5. Owed'
    BY <1>1, <1>2, <1>3 DEF Owed
  <1>6. \A m \in Messages : phase'[m] = "done" => phase[m] = "done"
    BY <1>1 DEF TypeOK
  <1>7. MissHasCause'
    BY <1>1, <1>2, <1>6 DEF Delivery, MissHasCause, Open, TypeOK
  <1> QED
    BY <1>4, <1>5, <1>7 DEF Delivery

\* What one send adds.
LEMMA Sending ==
  ASSUME TypeOK, SendNext
  PROVE  /\ sending \in Messages /\ pos + 1 \in DOMAIN list /\ list[pos + 1] \in Sockets
         /\ UNCHANGED <<list, socket, phase, order, overtaken, buffer>>
         /\ UNCHANGED <<sending, detached, shifted, due>>
         /\ pos' = pos + 1
         /\ list[pos + 1] \in Open =>
               received' = [received EXCEPT ![list[pos + 1]] = Append(@, sending)]
         /\ list[pos + 1] \notin Open => received' = received
  <1>1. sending \in Messages /\ pos + 1 \in 1..Len(list) /\ DOMAIN list = 1..Len(list)
    BY LenProperties DEF SendNext, More, TypeOK
  <1>2. list[pos + 1] \in Sockets
    BY <1>1, ElementOfSeq DEF TypeOK
  <1> QED
    BY <1>1, <1>2 DEF SendNext, Open, socketVars, messageVars, listenerVars

LEMMA SendDelivery ==
  ASSUME TypeOK, Delivery, SendNext
  PROVE  Delivery'
  <1> DEFINE t == list[pos + 1]
  <1>1. /\ sending \in Messages /\ t \in Sockets
        /\ UNCHANGED <<list, socket, phase, buffer, sending, detached, shifted, due>>
        /\ pos' = pos + 1
        /\ t \in Open => received' = [received EXCEPT ![t] = Append(@, sending)]
        /\ t \notin Open => received' = received
    BY Sending
  <1> HIDE DEF t
  <1>2. Open' = Open
    BY <1>1 DEF Open
  <1>3. \A s \in Sockets : Elements(received[s]) \subseteq Elements(received'[s])
    <2> SUFFICES ASSUME t \in Open
                 PROVE  Elements(received[t]) \subseteq Elements(received'[t])
      BY <1>1 DEF TypeOK
    <2>1. received[t] \in Seq(Messages) /\ received'[t] = Append(received[t], sending)
      BY <1>1 DEF TypeOK
    <2> QED
      BY <1>1, <2>1, AppendElements
  <1>4. t \in Open => sending \in Elements(received'[t])
    <2> SUFFICES ASSUME t \in Open
                 PROVE  sending \in Elements(received'[t])
      OBVIOUS
    <2>1. received[t] \in Seq(Messages) /\ received'[t] = Append(received[t], sending)
      BY <1>1 DEF TypeOK
    <2> QED
      BY <1>1, <2>1, AppendElements
  <1>5. Queue'
    BY ListenerQueue DEF Delivery, Deliver
  <1>6. MissHasCause'
    BY <1>1, <1>2, <1>3 DEF Delivery, MissHasCause, Open
  <1>7. Owed'
    <2> SUFFICES ASSUME NEW s \in Open, sending # NoMessage, sending \in due[s],
                        sending \notin Elements(received'[s]) \cup shifted
                 PROVE  ~detached /\ \E i \in DOMAIN list : pos + 1 < i /\ list[i] = s
      BY <1>1, <1>2 DEF Owed
    <2>1. sending \notin Elements(received[s]) \cup shifted
      BY <1>3 DEF Open
    <2>2. ~detached /\ \E i \in DOMAIN list : pos < i /\ list[i] = s
      BY <2>1 DEF Delivery, Owed
    <2>3. PICK i \in DOMAIN list : pos < i /\ list[i] = s
      BY <2>2
    <2>4. i # pos + 1
      BY <1>4, <2>3 DEF t
    <2>5. pos + 1 < i
      BY <2>3, <2>4, LenProperties DEF TypeOK
    <2> QED
      BY <2>2, <2>3, <2>5
  <1> QED
    BY <1>5, <1>6, <1>7 DEF Delivery

LEMMA FinishDelivery ==
  ASSUME TypeOK, Delivery, Finish
  PROVE  Delivery'
  <1>1. /\ sending \in Messages /\ sending' = NoMessage /\ ~More
        /\ phase' = [phase EXCEPT ![sending] = "done"]
        /\ UNCHANGED <<socket, shifted, received, due>>
    BY DEF Finish, LoopEnds, TypeOK, clientVars
  <1>2. Open' = Open
    BY <1>1 DEF Open
  <1>3. Queue'
    BY ListenerQueue DEF Delivery, Deliver
  <1>4. Owed'
    BY <1>1 DEF Owed
  <1>5. ASSUME NEW s \in Open, sending \in due[s]
        PROVE  sending \in Elements(received[s]) \cup shifted
    <2>1. detached \/ \A i \in DOMAIN list : ~(pos < i)
      BY <1>1, LenProperties DEF More, TypeOK
    <2>2. sending # NoMessage
      BY <1>1, ConnectionsAssumption
    <2> QED
      BY <1>5, <2>1, <2>2 DEF Delivery, Owed
  <1>6. MissHasCause'
    <2> SUFFICES ASSUME NEW s \in Open, NEW m \in due[s], phase'[m] = "done"
                 PROVE  m \in Elements(received[s]) \cup shifted
      BY <1>1, <1>2 DEF MissHasCause
    <2>1. CASE m = sending
      BY <1>5, <2>1
    <2>2. CASE m # sending
      <3>1. phase[m] = "done"
        BY <1>1, <2>2 DEF TypeOK, Open
      <3> QED
        BY <3>1 DEF Delivery, MissHasCause
    <2> QED
      BY <2>1, <2>2
  <1> QED
    BY <1>3, <1>4, <1>6 DEF Delivery

LEMMA Deliveries == Spec => []Delivery
  <1>1. TypeOK /\ Roll /\ Delivery /\ [Next]_vars => Delivery'
    <2> SUFFICES ASSUME TypeOK, Roll, Delivery, [Next]_vars
                 PROVE  Delivery'
      OBVIOUS
    <2>1. CASE UNCHANGED vars
      BY <2>1 DEF vars, socketVars, messageVars, listenerVars, loopVars, clientVars,
                  Delivery, Queue, Owed, MissHasCause, Open
    <2>2. CASE Next
      BY <2>2, RegisterDelivery, LeavesDelivery, RequestDelivery, SubscriptionDelivery,
         TakeDelivery, SendDelivery, FinishDelivery DEF Next, Handler, Deliver
    <2> QED
      BY <2>1, <2>2
  <1> QED
    BY <1>1, InitDelivery, TypeCorrect, Rolls, PTL DEF Spec

\* The loop over the list misses no open socket that the message is due to, unless
\* another one that it had already taken left the list under it.
THEOREM MissesHaveCauses == Spec => []MissHasCause
  <1>1. Delivery => MissHasCause
    BY DEF Delivery
  <1> QED
    BY <1>1, Deliveries, PTL

-------------------------------------------------------------------------------
(* In what order *)

Sorted(q, R) == \A i, j \in DOMAIN q : i < j => <<q[i], q[j]>> \in R

LEMMA SortedAppend ==
  ASSUME NEW S, NEW q \in Seq(S), NEW x \in S, NEW R, Sorted(q, R),
         \A n \in Elements(q) : <<n, x>> \in R
  PROVE  Sorted(Append(q, x), R)
  <1> DEFINE a == Append(q, x)
  <1>1. /\ Len(q) \in Nat /\ DOMAIN q = 1..Len(q)
        /\ a \in Seq(S) /\ Len(a) = Len(q) + 1
        /\ \A i \in 1..Len(q) : a[i] = q[i]
        /\ a[Len(q) + 1] = x
    BY AppendProperties, LenProperties
  <1> HIDE DEF a
  <1>2. DOMAIN a = 1..(Len(q) + 1)
    BY <1>1, LenProperties
  <1>3. ASSUME NEW i \in DOMAIN a, NEW j \in DOMAIN a, i < j
        PROVE  <<a[i], a[j]>> \in R
    <2>1. i \in DOMAIN q /\ a[i] = q[i] /\ q[i] \in Elements(q)
      BY <1>1, <1>2, <1>3 DEF Elements
    <2>2. CASE j \in DOMAIN q
      BY <1>1, <1>3, <2>1, <2>2 DEF Sorted
    <2>3. CASE j = Len(q) + 1
      BY <1>1, <2>1, <2>3
    <2> QED
      BY <1>1, <1>2, <2>2, <2>3
  <1> QED
    BY <1>3 DEF Sorted, a

LEMMA SortedTail ==
  ASSUME NEW S, NEW q \in Seq(S), q # <<>>, NEW R, Sorted(q, R)
  PROVE  /\ Sorted(Tail(q), R)
         /\ Head(q) \in Elements(q) /\ Elements(Tail(q)) \subseteq Elements(q)
         /\ \A m \in Elements(Tail(q)) : <<Head(q), m>> \in R
  <1> DEFINE t == Tail(q)
  <1>1. /\ Len(q) \in Nat /\ Len(q) # 0 /\ DOMAIN q = 1..Len(q)
        /\ t \in Seq(S) /\ Len(t) = Len(q) - 1
        /\ \A i \in 1..Len(t) : t[i] = q[i + 1]
        /\ Head(q) = q[1]
    BY HeadTailProperties, LenProperties, EmptySeq
  <1> HIDE DEF t
  <1>2. DOMAIN t = 1..(Len(q) - 1)
    BY <1>1, LenProperties
  <1>3. /\ 1 \in DOMAIN q
        /\ \A i \in DOMAIN t : i + 1 \in DOMAIN q /\ t[i] = q[i + 1] /\ 1 < i + 1
    BY <1>1, <1>2
  <1>4. Sorted(t, R)
    <2> SUFFICES ASSUME NEW i \in DOMAIN t, NEW j \in DOMAIN t, i < j
                 PROVE  <<t[i], t[j]>> \in R
      BY DEF Sorted
    <2>1. i + 1 < j + 1
      BY <1>2
    <2> QED
      BY <1>3, <2>1 DEF Sorted
  <1>5. Head(q) \in Elements(q) /\ Elements(t) \subseteq Elements(q)
    BY <1>1, <1>3 DEF Elements
  <1>6. \A m \in Elements(t) : <<Head(q), m>> \in R
    BY <1>1, <1>3 DEF Elements, Sorted
  <1> QED
    BY <1>4, <1>5, <1>6 DEF t

LEMMA SortedMore ==
  ASSUME NEW q, NEW R, NEW T, Sorted(q, R),
         \A n, m \in Elements(q) : <<n, m>> \in R => <<n, m>> \in T
  PROVE  Sorted(q, T)
  BY DEF Sorted, Elements

\* The pairs that went in the order of their commits, or are known to have not.
Fine == {p \in Messages \X Messages : Earlier(p[2], p[1]) => p[2] \in overtaken}

Commits == /\ Once(order)
           /\ \A m \in Elements(order) : phase[m] # "idle"

\* From the sockets back to the buffer, each message is behind those published before.
Fifo ==
    /\ Sorted(buffer, Fine)
    /\ \A m \in Elements(buffer) : sending # NoMessage => <<sending, m>> \in Fine
    /\ \A s \in Sockets : Sorted(received[s], Fine)
    /\ \A s \in Sockets : \A n \in Elements(received[s]) :
          /\ phase[n] \in {"sending", "done"}
          /\ sending # NoMessage => <<n, sending>> \in Fine
          /\ \A m \in Elements(buffer) : <<n, m>> \in Fine

History == Commits /\ Fifo

LEMMA InitHistory == Init => History
  BY DEF Init, History, Commits, Fifo, Once, Sorted, Elements

Published == {m \in Messages : phase[m] \notin {"idle", "committed"}}

LEMMA InLine ==
  ASSUME TypeOK, Queue, Fifo
  PROVE  /\ Elements(buffer) \subseteq Published
         /\ sending # NoMessage => sending \in Published
         /\ \A s \in Sockets : Elements(received[s]) \subseteq Published
  <1>1. \A i \in DOMAIN buffer : buffer[i] \in Messages /\ phase[buffer[i]] = "queued"
    BY LenProperties DEF TypeOK, Queue
  <1>2. sending # NoMessage => sending \in Messages /\ phase[sending] = "sending"
    BY DEF TypeOK, Queue
  <1>3. ASSUME NEW s \in Sockets
        PROVE  \A n \in Elements(received[s]) : n \in Messages /\ phase[n] \in {"sending", "done"}
    <2>1. received[s] \in Seq(Messages)
      BY DEF TypeOK
    <2>2. \A i \in DOMAIN received[s] : received[s][i] \in Messages
      BY <2>1, LenProperties
    <2> QED
      BY <2>2 DEF Fifo, Elements
  <1> QED
    BY <1>1, <1>2, <1>3 DEF Published, Elements

\* What is in line keeps its order when the pairs that are fine stay so.
LEMMA FifoKept ==
  ASSUME TypeOK, Queue, Fifo,
         UNCHANGED <<buffer, sending, received>>,
         \A n, m \in Published : <<n, m>> \in Fine => <<n, m>> \in Fine',
         \A n \in Published : phase'[n] = phase[n]
  PROVE  Fifo'
  <1>1. /\ Elements(buffer) \subseteq Published
        /\ sending # NoMessage => sending \in Published
        /\ \A s \in Sockets : Elements(received[s]) \subseteq Published
    BY InLine
  <1>2. Sorted(buffer, Fine')
    BY <1>1, SortedMore DEF Fifo
  <1>3. \A s \in Sockets : Sorted(received[s], Fine')
    BY <1>1, SortedMore DEF Fifo
  <1> QED
    BY <1>1, <1>2, <1>3 DEF Fifo

LEMMA HandlerHistory ==
  ASSUME TypeOK, History, NEW s \in Sockets, Handler(s)
  PROVE  History'
  <1>1. UNCHANGED <<phase, order, overtaken, buffer, sending>>
    BY DEF Handler, Register, ClientLeaves, Disconnect, Refuse, Breaks,
           messageVars, listenerVars, loopVars
  <1>2. \A q \in Sockets : received'[q] = received[q] \/ received'[q] = <<>>
    <2>1. CASE Register(s)
      BY <2>1 DEF Register, clientVars
    <2>2. CASE ~Register(s)
      <3>1. \E from : \E to \in {"gone", "ended"} : Leaves(s, from, to)
        BY <2>2 DEF Handler, ClientLeaves, Disconnect, Refuse, Breaks
      <3> QED
        BY <3>1, Leaving
    <2> QED
      BY <2>1, <2>2
  <1>3. Fine' = Fine
    BY <1>1 DEF Fine, Earlier
  <1>4. Sorted(<<>>, Fine) /\ Elements(<<>>) = {}
    BY DEF Sorted, Elements
  <1>5. Fifo'
    BY <1>1, <1>2, <1>3, <1>4 DEF History, Fifo
  <1> QED
    BY <1>1, <1>5 DEF History, Commits

LEMMA CommitHistory ==
  ASSUME TypeOK, Queue, History, NEW m \in Messages, Commit(m)
  PROVE  History'
  <1>1. /\ phase[m] = "idle" /\ phase'[m] = "committed"
        /\ \A n \in Messages : n # m => phase'[n] = phase[n]
        /\ order' = Append(order, m) /\ order \in Seq(Messages)
        /\ UNCHANGED <<overtaken, buffer, sending, received>>
    BY DEF Commit, TypeOK, listenerVars, loopVars, clientVars
  <1>2. \A i \in DOMAIN order : order[i] \in Messages /\ order[i] # m
    BY <1>1, LenProperties DEF History, Commits, Elements
  <1>3. /\ Once(order')
        /\ \A i \in DOMAIN order : order'[i] = order[i]
        /\ \A i \in DOMAIN order' : i \in DOMAIN order \/ (i = Len(order) + 1 /\ order'[i] = m)
    BY <1>1, <1>2, AppendOnce DEF History, Commits
  <1>4. Elements(order') = Elements(order) \cup {m}
    BY <1>1, AppendElements
  <1>5. Commits'
    <2>1. \A n \in Elements(order) : n \in Messages /\ phase'[n] # "idle"
      BY <1>1, <1>2 DEF History, Commits, Elements
    <2> QED
      BY <1>1, <1>3, <1>4, <2>1 DEF Commits
  <1>6. ASSUME NEW a, NEW b, b # m, Earlier(a, b)'
        PROVE  Earlier(a, b)
    <2>1. PICK i \in DOMAIN order', j \in DOMAIN order' : i < j /\ order'[i] = a /\ order'[j] = b
      BY <1>6 DEF Earlier
    <2>2. j \in DOMAIN order
      BY <1>3, <1>6, <2>1
    <2>3. i \in DOMAIN order
      BY <1>1, <1>3, <2>1, <2>2, LenProperties
    <2> QED
      BY <1>3, <2>1, <2>2, <2>3 DEF Earlier
  <1>7. ASSUME NEW n \in Published, NEW k \in Published, <<n, k>> \in Fine
        PROVE  <<n, k>> \in Fine'
    <2>1. n # m
      BY <1>1 DEF Published
    <2>2. Earlier(k, n)' => Earlier(k, n)
      BY <1>6, <2>1
    <2>3. Earlier(k, n) => k \in overtaken
      BY <1>7 DEF Fine
    <2> QED
      BY <1>1, <2>2, <2>3 DEF Fine, Published
  <1>8. \A n \in Published : phase'[n] = phase[n]
    BY <1>1 DEF Published
  <1>9. Fifo'
    BY <1>1, <1>7, <1>8, FifoKept DEF History
  <1> QED
    BY <1>5, <1>9 DEF History

\* No step but a commit changes what was committed before what.
LEMMA SameCommits ==
  ASSUME History, order \in Seq(Messages), UNCHANGED order, overtaken \subseteq overtaken',
         \A n \in Messages : phase[n] # "idle" => phase'[n] # "idle"
  PROVE  Commits' /\ \A p \in Fine : p \in Fine'
  <1>1. \A n \in Elements(order) : n \in Messages
    BY LenProperties DEF Elements
  <1>2. Commits'
    BY <1>1 DEF History, Commits
  <1>3. ASSUME NEW p \in Fine
        PROVE  p \in Fine'
    <2>1. Earlier(p[2], p[1])' => Earlier(p[2], p[1])
      BY DEF Earlier
    <2> QED
      BY <2>1 DEF Fine
  <1> QED
    BY <1>2, <1>3

\* A message published is behind every other, or known to be overtaken.
LEMMA PublishHistory ==
  ASSUME TypeOK, Queue, History, NEW m \in Messages, Publish(m)
  PROVE  History'
  <1>1. /\ phase[m] = "committed" /\ phase'[m] = "queued"
        /\ \A n \in Messages : n # m => phase'[n] = phase[n]
        /\ buffer' = Append(buffer, m) /\ buffer \in Seq(Messages)
        /\ UNCHANGED <<order, sending, received>>
        /\ overtaken \subseteq overtaken' /\ order \in Seq(Messages)
    BY DEF Publish, TypeOK, loopVars
  <1>2. Commits' /\ \A p \in Fine : p \in Fine'
    BY <1>1, SameCommits
  <1>3. ASSUME NEW n \in Published
        PROVE  <<n, m>> \in Fine'
    <2>1. Earlier(m, n) => m \in overtaken'
      BY <1>3 DEF Publish, Published
    <2>2. Earlier(m, n)' => Earlier(m, n)
      BY <1>1 DEF Earlier
    <2> QED
      BY <2>1, <2>2 DEF Fine, Published
  <1>4. /\ Elements(buffer) \subseteq Published
        /\ sending # NoMessage => sending \in Published
        /\ \A s \in Sockets : Elements(received[s]) \subseteq Published
    BY InLine DEF History
  <1>5. Elements(buffer') = Elements(buffer) \cup {m}
    BY <1>1, AppendElements
  <1>6. Sorted(buffer', Fine')
    <2>1. Sorted(buffer, Fine')
      BY <1>2, SortedMore DEF History, Fifo
    <2> QED
      BY <1>1, <1>3, <1>4, <2>1, SortedAppend
  <1>7. \A s \in Sockets : Sorted(received[s], Fine')
    BY <1>2, SortedMore DEF History, Fifo
  <1>8. \A n \in Published : phase'[n] = phase[n]
    BY <1>1 DEF Published
  <1>9. Fifo'
    <2>1. \A k \in Elements(buffer') : sending # NoMessage => <<sending, k>> \in Fine'
      BY <1>2, <1>3, <1>4, <1>5 DEF History, Fifo
    <2>2. ASSUME NEW s \in Sockets, NEW n \in Elements(received[s])
          PROVE  /\ phase'[n] \in {"sending", "done"}
                 /\ sending # NoMessage => <<n, sending>> \in Fine'
                 /\ \A k \in Elements(buffer') : <<n, k>> \in Fine'
      <3>1. n \in Published
        BY <1>4
      <3> QED
        BY <1>2, <1>3, <1>5, <1>8, <3>1 DEF History, Fifo
    <2> QED
      BY <1>1, <1>6, <1>7, <2>1, <2>2 DEF Fifo
  <1> QED
    BY <1>2, <1>9 DEF History

LEMMA SubscriptionHistory ==
  ASSUME TypeOK, Queue, History,
         Subscribe \/ ListenerFails \/ \E m \in Messages : PublishLost(m)
  PROVE  History'
  <1> USE DEF messageVars, listenerVars, loopVars, clientVars
  <1>1. /\ UNCHANGED <<order, overtaken, sending, received>> /\ order \in Seq(Messages)
        /\ buffer' = buffer \/ buffer' = <<>>
    BY DEF Subscribe, ListenerFails, PublishLost, TypeOK
  <1>2. ASSUME NEW n \in Messages
        PROVE  phase'[n] = phase[n] \/ (phase'[n] = "lost" /\ phase[n] \in {"committed", "queued"})
    <2>1. CASE Subscribe
      BY <2>1 DEF Subscribe
    <2>2. CASE ListenerFails
      BY <2>2 DEF ListenerFails
    <2>3. ASSUME NEW m \in Messages, PublishLost(m)
          PROVE  phase'[n] = phase[n] \/ (phase'[n] = "lost" /\ phase[n] \in {"committed", "queued"})
      BY <2>3 DEF PublishLost, TypeOK
    <2> QED
      BY <2>1, <2>2, <2>3
  <1>3. Commits'
    BY <1>1, <1>2, SameCommits
  <1>4. Fine' = Fine
    BY <1>1 DEF Fine, Earlier
  <1>5. Sorted(<<>>, Fine) /\ Elements(<<>>) = {}
    BY DEF Sorted, Elements
  <1>6. \A s \in Sockets : \A n \in Elements(received[s]) : phase'[n] \in {"sending", "done"}
    <2>1. \A s \in Sockets : Elements(received[s]) \subseteq Messages
      BY InLine DEF History, Published
    <2> QED
      BY <1>2, <2>1 DEF History, Fifo
  <1>7. Fifo'
    BY <1>1, <1>4, <1>5, <1>6 DEF History, Fifo
  <1> QED
    BY <1>3, <1>7 DEF History

LEMMA TakeHistory ==
  ASSUME TypeOK, Queue, History, Take
  PROVE  History'
  <1>1. /\ UNCHANGED <<order, overtaken, received>> /\ order \in Seq(Messages)
        /\ buffer # <<>> /\ buffer \in Seq(Messages) /\ buffer' = Tail(buffer)
        /\ sending' = Head(buffer)
        /\ phase' = [phase EXCEPT ![Head(buffer)] = "sending"]
    BY DEF Take, TypeOK, clientVars
  <1>2. \A n \in Messages : phase'[n] = phase[n] \/ phase'[n] = "sending"
    BY <1>1 DEF TypeOK
  <1>3. Commits'
    BY <1>1, <1>2, SameCommits
  <1>4. Fine' = Fine
    BY <1>1 DEF Fine, Earlier
  <1>5. /\ Sorted(buffer', Fine)
        /\ sending' \in Elements(buffer) /\ Elements(buffer') \subseteq Elements(buffer)
        /\ \A m \in Elements(buffer') : <<sending', m>> \in Fine
    BY <1>1, SortedTail DEF History, Fifo
  <1>6. \A s \in Sockets : Elements(received[s]) \subseteq Messages
    BY InLine DEF History, Published
  <1>7. Fifo'
    BY <1>1, <1>2, <1>4, <1>5, <1>6 DEF History, Fifo
  <1> QED
    BY <1>3, <1>7 DEF History

LEMMA SendHistory ==
  ASSUME TypeOK, Queue, History, SendNext
  PROVE  History'
  <1> DEFINE t == list[pos + 1]
  <1>1. /\ sending \in Messages /\ t \in Sockets
        /\ UNCHANGED <<phase, order, overtaken, buffer, sending>>
        /\ received' = received \/ received' = [received EXCEPT ![t] = Append(@, sending)]
    BY Sending
  <1> HIDE DEF t
  <1>2. Fine' = Fine
    BY <1>1 DEF Fine, Earlier
  <1>3. sending # NoMessage /\ phase[sending] = "sending"
    BY <1>1, ConnectionsAssumption DEF Queue
  <1>4. ASSUME NEW s \in Sockets
        PROVE  /\ Sorted(received'[s], Fine)
               /\ Elements(received'[s]) \subseteq Elements(received[s]) \cup {sending}
    <2>1. CASE received'[s] = received[s]
      BY <2>1 DEF History, Fifo
    <2>2. CASE received'[s] = Append(received[s], sending)
      <3>1. received[s] \in Seq(Messages) /\ Sorted(received[s], Fine)
        BY DEF TypeOK, History, Fifo
      <3>2. \A n \in Elements(received[s]) : <<n, sending>> \in Fine
        BY <1>3 DEF History, Fifo
      <3> QED
        BY <1>1, <2>2, <3>1, <3>2, SortedAppend, AppendElements
    <2> QED
      BY <1>1, <2>1, <2>2 DEF TypeOK
  <1>5. <<sending, sending>> \in Fine
    <2>1. ~Earlier(sending, sending)
      <3>1. \A i, j \in DOMAIN order : i < j => order[i] # order[j]
        BY LenProperties DEF TypeOK, History, Commits, Once
      <3> QED
        BY <3>1 DEF Earlier
    <2> QED
      BY <1>1, <2>1 DEF Fine
  <1>6. Fifo'
    <2>1. ASSUME NEW s \in Sockets, NEW n \in Elements(received'[s])
          PROVE  /\ phase[n] \in {"sending", "done"}
                 /\ <<n, sending>> \in Fine
                 /\ \A m \in Elements(buffer) : <<n, m>> \in Fine
      <3>1. CASE n = sending
        BY <1>3, <1>5, <3>1 DEF History, Fifo
      <3>2. CASE n \in Elements(received[s])
        BY <1>3, <3>2 DEF History, Fifo
      <3> QED
        BY <1>4, <3>1, <3>2
    <2> QED
      BY <1>1, <1>2, <1>4, <2>1 DEF History, Fifo
  <1> QED
    BY <1>1, <1>6 DEF History, Commits

LEMMA FinishHistory ==
  ASSUME TypeOK, Queue, History, Finish
  PROVE  History'
  <1>1. /\ UNCHANGED <<order, overtaken, buffer, received>> /\ order \in Seq(Messages)
        /\ sending' = NoMessage /\ phase' = [phase EXCEPT ![sending] = "done"]
    BY DEF Finish, LoopEnds, TypeOK, listenerVars, clientVars
  <1>2. \A n \in Messages : phase'[n] = phase[n] \/ phase'[n] = "done"
    BY <1>1 DEF TypeOK
  <1>3. Commits'
    BY <1>1, <1>2, SameCommits
  <1>4. Fine' = Fine
    BY <1>1 DEF Fine, Earlier
  <1>5. \A s \in Sockets : Elements(received[s]) \subseteq Messages
    BY InLine DEF History, Published
  <1>6. Fifo'
    BY <1>1, <1>2, <1>4, <1>5 DEF History, Fifo
  <1> QED
    BY <1>3, <1>6 DEF History

LEMMA Histories == Spec => []History
  <1>1. TypeOK /\ Delivery /\ History /\ [Next]_vars => History'
    <2> SUFFICES ASSUME TypeOK, Queue, History, [Next]_vars
                 PROVE  History'
      BY DEF Delivery
    <2>1. CASE UNCHANGED vars
      <3>1. UNCHANGED <<phase, order, overtaken, buffer, sending, received>>
        BY <2>1 DEF vars, messageVars, listenerVars, loopVars, clientVars
      <3>2. Fine' = Fine
        BY <3>1 DEF Fine, Earlier
      <3> QED
        BY <3>1, <3>2 DEF History, Commits, Fifo
    <2>2. CASE Next
      BY <2>2, HandlerHistory, CommitHistory, PublishHistory, SubscriptionHistory, TakeHistory,
         SendHistory, FinishHistory DEF Next, Request, Deliver
    <2> QED
      BY <2>1, <2>2
  <1> QED
    BY <1>1, InitHistory, TypeCorrect, Deliveries, PTL DEF Spec

\* What a client saw last is stale only if the list moved under a later message or the
\* requests published out of commit order: the listener takes the messages in the order
\* of the subscription and loses none while it has them.
THEOREM StaleStatusesHaveCauses == Spec => []StaleStatusHasCause
  <1>1. TypeOK /\ Delivery /\ History => StaleStatusHasCause
    <2> SUFFICES ASSUME TypeOK, Delivery, History, NEW s \in Open, NEW n \in due[s],
                        NEW m, m = received[s][Len(received[s])], received[s] # <<>>,
                        Earlier(m, n), phase[n] = "done", n \notin shifted
                 PROVE  m \in overtaken
      BY DEF StaleStatusHasCause
    <2>1. s \in Sockets /\ received[s] \in Seq(Messages)
      BY DEF Open, TypeOK
    <2>2. n \in Elements(received[s])
      BY DEF Delivery, MissHasCause
    <2>3. PICK i \in DOMAIN received[s] : received[s][i] = n
      BY <2>2 DEF Elements
    <2>4. m # n
      <3>1. \A a, b \in DOMAIN order : a < b => order[a] # order[b]
        BY LenProperties DEF TypeOK, History, Commits, Once
      <3> QED
        BY <3>1 DEF Earlier
    <2>5. Len(received[s]) \in DOMAIN received[s] /\ i < Len(received[s])
      BY <2>1, <2>3, <2>4, LenProperties, EmptySeq
    <2>6. <<n, m>> \in Fine
      BY <2>1, <2>3, <2>5 DEF History, Fifo, Sorted
    <2> QED
      BY <2>6 DEF Fine
  <1> QED
    BY <1>1, TypeCorrect, Deliveries, Histories, PTL

-------------------------------------------------------------------------------
(* What is sent once *)

\* A socket stands in the list once; one that is not open yet has received nothing; and
\* none at which the loop has yet to arrive has the message it sends.
Single ==
    /\ Once(list)
    /\ \A s \in Sockets : socket[s] = "new" => received[s] = <<>>
    /\ sending # NoMessage /\ ~detached =>
          \A i \in DOMAIN list : pos < i => sending \notin Elements(received[list[i]])

\* What each socket has received it has received once.
NoRepeats == \A s \in Sockets : Once(received[s])

LEMMA InitSingle == Init => Single /\ NoRepeats
  <1> SUFFICES ASSUME Init
               PROVE  Single /\ NoRepeats
    OBVIOUS
  <1>1. list = <<>> /\ sending = NoMessage /\ \A s \in Sockets : received[s] = <<>>
    BY DEF Init
  <1>2. Once(<<>>)
    BY DEF Once
  <1> QED
    BY <1>1, <1>2 DEF Single, NoRepeats

LEMMA RegisterSingle ==
  ASSUME TypeOK, Roll, Single, NoRepeats, NEW s \in Sockets, Register(s)
  PROVE  Single' /\ NoRepeats'
  <1>1. /\ socket[s] = "new" /\ socket'[s] = "open"
        /\ \A q \in Sockets : q # s => socket'[q] = socket[q]
        /\ list' = Append(list, s) /\ list \in Seq(Sockets)
        /\ UNCHANGED <<sending, pos, detached, received>>
    BY DEF Register, Moves, TypeOK, loopVars, clientVars
  <1>2. \A i \in DOMAIN list : list[i] # s
    BY <1>1 DEF Roll, Handled, Elements
  <1>3. /\ Once(list')
        /\ \A i \in DOMAIN list : list'[i] = list[i]
        /\ \A i \in DOMAIN list' : i \in DOMAIN list \/ (i = Len(list) + 1 /\ list'[i] = s)
    BY <1>1, <1>2, AppendOnce DEF Single
  <1>4. received[s] = <<>>
    BY <1>1 DEF Single
  <1>5. Elements(<<>>) = {}
    BY DEF Elements
  <1>6. ASSUME sending # NoMessage, ~detached, NEW i \in DOMAIN list', pos < i
        PROVE  sending \notin Elements(received[list'[i]])
    <2>1. CASE i \in DOMAIN list
      BY <1>3, <1>6, <2>1 DEF Single
    <2>2. CASE list'[i] = s
      BY <1>4, <1>5, <2>2
    <2> QED
      BY <1>3, <2>1, <2>2
  <1>7. \A q \in Sockets : socket'[q] = "new" => received[q] = <<>>
    BY <1>1 DEF Single
  <1> QED
    BY <1>1, <1>3, <1>6, <1>7 DEF Single, NoRepeats

LEMMA LeavesSingle ==
  ASSUME TypeOK, Single, NoRepeats, NEW s \in Sockets,
         ClientLeaves(s) \/ Disconnect(s) \/ Refuse(s) \/ Breaks(s)
  PROVE  Single' /\ NoRepeats'
  <1>1. /\ socket'[s] # "new" /\ received'[s] = <<>>
        /\ \A q \in Sockets : q # s => socket'[q] = socket[q] /\ received'[q] = received[q]
    <2>1. \E from : \E to \in {"gone", "ended"} : Leaves(s, from, to)
      BY DEF ClientLeaves, Disconnect, Refuse, Breaks
    <2> QED
      BY <2>1, Leaving
  <1>2. UNCHANGED <<sending, pos>> /\ (~detached' => ~detached)
    <2>1. UNCHANGED <<sending, pos>>
      BY DEF ClientLeaves, Disconnect, Refuse, Breaks, loopVars
    <2>2. CASE Disconnect(s)
      BY <2>2, Zenon DEF Disconnect, Removed
    <2>3. CASE ~Disconnect(s)
      BY <2>3 DEF ClientLeaves, Refuse, Breaks, loopVars
    <2> QED
      BY <2>1, <2>2, <2>3
  <1>3. /\ Once(list')
        /\ \A k \in DOMAIN list' : \E i \in DOMAIN list : k <= i /\ list'[k] = list[i]
    <2>1. CASE Disconnect(s)
      <3>1. list' = Without({s}) /\ list \in Seq(Sockets)
        BY <2>1 DEF Disconnect, Removed, TypeOK
      <3>2. Once(Without({s}))
        BY <3>1, Removal DEF Single
      <3>3. \A k \in DOMAIN Without({s}) :
               \E i \in DOMAIN list : k <= i /\ Without({s})[k] = list[i]
        BY <3>1, Removal
      <3> QED
        BY <3>1, <3>2, <3>3, Zenon
    <2>2. CASE ~Disconnect(s)
      <3>1. list' = list
        BY <2>2 DEF ClientLeaves, Refuse, Breaks
      <3>2. \A k \in DOMAIN list : k <= k
        BY LenProperties DEF TypeOK
      <3> QED
        BY <3>1, <3>2 DEF Single
    <2> QED
      BY <2>1, <2>2
  <1>4. Once(<<>>) /\ Elements(<<>>) = {}
    BY DEF Once, Elements
  <1>5. \A q \in Sockets : received'[q] = received[q] \/ received'[q] = <<>>
    BY <1>1
  <1>6. NoRepeats'
    BY <1>4, <1>5 DEF NoRepeats
  <1>7. ASSUME sending # NoMessage, ~detached, NEW k \in DOMAIN list', pos < k
        PROVE  sending \notin Elements(received'[list'[k]])
    <2>1. PICK i \in DOMAIN list : k <= i /\ list'[k] = list[i]
      BY <1>3
    <2>2. list[i] \in Sockets
      BY LenProperties DEF TypeOK
    <2>3. pos < i
      <3>1. list' \in Seq(Sockets) /\ list \in Seq(Sockets) /\ pos \in Nat
        BY HandlerTypeOK DEF TypeOK, Handler
      <3>2. k \in Nat /\ i \in Nat
        BY <3>1, LenProperties
      <3> QED
        BY <1>7, <2>1, <3>1, <3>2
    <2>4. sending \notin Elements(received[list[i]])
      BY <1>7, <2>3 DEF Single
    <2> QED
      BY <1>4, <1>5, <2>1, <2>2, <2>4
  <1>8. \A q \in Sockets : socket'[q] = "new" => received'[q] = <<>>
    BY <1>1 DEF Single
  <1> QED
    BY <1>2, <1>3, <1>6, <1>7, <1>8 DEF Single

LEMMA TakeSingle ==
  ASSUME TypeOK, Queue, Fifo, Single, NoRepeats, Take
  PROVE  Single' /\ NoRepeats'
  <1>1. /\ buffer # <<>> /\ buffer \in Seq(Messages) /\ sending' = Head(buffer)
        /\ UNCHANGED <<list, socket, pos, detached, received>>
    BY DEF Take, TypeOK, socketVars, clientVars
  <1>2. sending' = buffer[1] /\ 1 \in DOMAIN buffer
    BY <1>1, TailOnce DEF Queue
  <1>3. phase[sending'] = "queued"
    BY <1>2 DEF Queue
  <1>4. \A s \in Sockets : sending' \notin Elements(received[s])
    BY <1>3 DEF Fifo
  <1>5. \A i \in DOMAIN list : list[i] \in Sockets
    BY LenProperties DEF TypeOK
  <1> QED
    BY <1>1, <1>4, <1>5 DEF Single, NoRepeats

LEMMA SendSingle ==
  ASSUME TypeOK, Single, NoRepeats, SendNext
  PROVE  Single' /\ NoRepeats'
  <1> DEFINE t == list[pos + 1]
  <1>1. /\ sending \in Messages /\ t \in Sockets /\ pos + 1 \in DOMAIN list /\ pos \in Nat
        /\ UNCHANGED <<list, socket, sending, detached>> /\ pos' = pos + 1
        /\ socket[t] = "open" => received' = [received EXCEPT ![t] = Append(@, sending)]
        /\ socket[t] # "open" => received' = received
    BY Sending DEF Open, TypeOK
  <1>2. sending # NoMessage /\ ~detached
    BY DEF SendNext, More
  <1>3. sending \notin Elements(received[t])
    <2>1. pos < pos + 1
      BY <1>1
    <2> QED
      BY <1>1, <1>2, <2>1 DEF Single
  <1>4. \A i \in DOMAIN list : /\ list[i] \in Sockets /\ i \in Nat
                               /\ list[i] = t => i = pos + 1
    BY <1>1, LenProperties DEF TypeOK, Single, Once
  <1> HIDE DEF t
  <1>5. CASE socket[t] # "open"
    <2>1. received' = received
      BY <1>1, <1>5
    <2>2. \A i \in DOMAIN list : pos + 1 < i => pos < i
      BY <1>1, <1>4
    <2> QED
      BY <1>1, <2>1, <2>2 DEF Single, NoRepeats
  <1>6. CASE socket[t] = "open"
    <2>1. /\ received'[t] = Append(received[t], sending) /\ received[t] \in Seq(Messages)
          /\ \A q \in Sockets : q # t => received'[q] = received[q]
      BY <1>1, <1>6 DEF TypeOK
    <2>2. Once(received'[t])
      <3>1. \A i \in DOMAIN received[t] : received[t][i] # sending
        BY <1>3 DEF Elements
      <3>2. Once(received[t])
        BY <1>1 DEF NoRepeats
      <3> QED
        BY <1>1, <2>1, <3>1, <3>2, AppendOnce
    <2>3. NoRepeats'
      BY <2>1, <2>2 DEF NoRepeats
    <2>4. ASSUME NEW i \in DOMAIN list, pos + 1 < i
          PROVE  sending \notin Elements(received'[list[i]])
      <3>1. pos < i /\ i # pos + 1
        BY <1>1, <1>4, <2>4
      <3>2. list[i] # t /\ list[i] \in Sockets
        BY <1>4, <3>1
      <3>3. sending \notin Elements(received[list[i]])
        BY <1>2, <3>1 DEF Single
      <3> QED
        BY <2>1, <3>2, <3>3
    <2>5. \A q \in Sockets : socket[q] = "new" => received'[q] = <<>>
      BY <1>6, <2>1 DEF Single
    <2> QED
      BY <1>1, <2>3, <2>4, <2>5 DEF Single
  <1> QED
    BY <1>5, <1>6

LEMMA RestSingle ==
  ASSUME TypeOK, Single, NoRepeats,
         Subscribe \/ ListenerFails \/ Finish \/ \E m \in Messages : Request(m)
  PROVE  Single' /\ NoRepeats'
  <1>1. UNCHANGED <<socket, received>>
    BY DEF Subscribe, ListenerFails, Finish, LoopEnds, Request, Commit, Publish, PublishLost,
           socketVars, clientVars
  <1>2. CASE Finish
    <2>1. sending' = NoMessage /\ list' = Without(failed) /\ list \in Seq(Sockets)
      BY <1>2 DEF Finish, LoopEnds, TypeOK
    <2>2. Once(list')
      BY <2>1, Removal DEF Single
    <2> QED
      BY <1>1, <2>1, <2>2 DEF Single, NoRepeats
  <1>3. CASE ~Finish
    <2>1. UNCHANGED <<list, sending, pos, detached>>
      BY <1>3 DEF Subscribe, ListenerFails, Request, Commit, Publish, PublishLost,
                  socketVars, loopVars
    <2> QED
      BY <1>1, <2>1 DEF Single, NoRepeats
  <1> QED
    BY <1>2, <1>3

LEMMA Singles == Spec => [](Single /\ NoRepeats)
  <1>1. TypeOK /\ Roll /\ Delivery /\ History /\ Single /\ NoRepeats /\ [Next]_vars
           => Single' /\ NoRepeats'
    <2> SUFFICES ASSUME TypeOK, Roll, Queue, Fifo, Single, NoRepeats, [Next]_vars
                 PROVE  Single' /\ NoRepeats'
      BY DEF Delivery, History
    <2>1. CASE UNCHANGED vars
      BY <2>1 DEF vars, socketVars, loopVars, clientVars, Single, NoRepeats
    <2>2. CASE Next
      BY <2>2, RegisterSingle, LeavesSingle, TakeSingle, SendSingle, RestSingle
      DEF Next, Handler, Deliver
    <2> QED
      BY <2>1, <2>2
  <1> QED
    BY <1>1, InitSingle, TypeCorrect, Rolls, Deliveries, Histories, PTL DEF Spec

\* No socket is sent a message twice, whatever sockets come, go and fail under the loop
\* over the list: what leaves it moves the others to the front, never past the loop
\* again, and the listener takes each message once.
THEOREM NothingTwice == Spec => []NoRepeats
  BY Singles, PTL

-------------------------------------------------------------------------------
(* How far a message is from its delivery *)

\* The loop never gets further than there are sockets.
LoopBounded == /\ Len(list) <= Cardinality(Sockets)
               /\ pos <= Cardinality(Sockets)

\* Under a message the loop only goes forward, by each of the listener's steps, until the
\* message is delivered.
LoopMoves == sending # NoMessage =>
                 \/ phase'[sending] = "done"
                 \/ sending' = sending /\ pos <= pos' /\ (Deliver => pos < pos')

\* A queued message only comes nearer to the head of the buffer, by each message the
\* listener takes, until it is taken itself or lost.
LineMoves == \A i \in DOMAIN buffer : phase'[buffer[i]] = "queued" =>
                 \E j \in DOMAIN buffer' :
                    /\ buffer'[j] = buffer[i]
                    /\ j <= i
                    /\ sending = NoMessage /\ Deliver => j < i

LEMMA OnceBounds ==
  ASSUME NEW S, IsFiniteSet(S), NEW q \in Seq(S), Once(q)
  PROVE  Len(q) <= Cardinality(S)
  <1>1. Len(q) \in Nat /\ DOMAIN q = 1..Len(q) /\ q \in [1..Len(q) -> S]
    BY LenProperties
  <1>2. q \in Injection(1..Len(q), S)
    BY <1>1 DEF Once, Injection, IsInjective
  <1>3. Cardinality(1..Len(q)) <= Cardinality(S)
    BY <1>2, FS_Injection
  <1>4. Cardinality(1..Len(q)) = Len(q)
    BY <1>1, FS_Interval
  <1> QED
    BY <1>3, <1>4

LEMMA Bound ==
  ASSUME IsFiniteSet(Sockets)
  PROVE  /\ TypeOK /\ Single /\ Init => LoopBounded
         /\ TypeOK /\ TypeOK' /\ Single' /\ LoopBounded /\ [Next]_vars => LoopBounded'
  <1>1. Cardinality(Sockets) \in Nat
    BY FS_CardinalityType
  <1>2. TypeOK /\ Single => Len(list) <= Cardinality(Sockets)
    BY OnceBounds DEF TypeOK, Single
  <1>3. TypeOK /\ Single /\ Init => LoopBounded
    BY <1>1, <1>2 DEF LoopBounded, Init
  <1>4. TypeOK' /\ Single' => Len(list') <= Cardinality(Sockets)
    BY OnceBounds DEF TypeOK, Single
  <1>5. ASSUME TypeOK, LoopBounded, [Next]_vars
        PROVE  pos' <= Cardinality(Sockets)
    <2>1. CASE SendNext
      <3>1. pos' = pos + 1 /\ pos + 1 \in 1..Len(list)
        BY <1>5, <2>1, Sending, LenProperties DEF TypeOK
      <3> QED
        BY <1>1, <1>5, <3>1, LenProperties DEF LoopBounded, TypeOK
    <2>2. CASE Finish
      BY <1>1, <2>2 DEF Finish, LoopEnds
    <2>3. CASE ~SendNext /\ ~Finish
      <3>1. pos' = pos
        BY <1>5, <2>3
        DEF Next, Handler, Register, ClientLeaves, Disconnect, Refuse, Breaks, Request, Commit,
            Publish, PublishLost, Subscribe, ListenerFails, Deliver, Take, vars, loopVars
      <3> QED
        BY <1>5, <3>1 DEF LoopBounded
    <2> QED
      BY <2>1, <2>2, <2>3
  <1> QED
    BY <1>3, <1>4, <1>5 DEF LoopBounded

LEMMA LoopStep ==
  ASSUME TypeOK, Queue, Next, sending # NoMessage
  PROVE  \/ phase'[sending] = "done"
         \/ sending' = sending /\ pos <= pos' /\ (Deliver => pos < pos')
  <1>1. sending \in Messages /\ pos \in Nat
    BY DEF TypeOK
  <1>2. CASE Deliver
    <2>1. CASE SendNext
      BY <1>1, <2>1, Sending
    <2>2. CASE Finish
      BY <1>1, <2>2 DEF Finish, LoopEnds, TypeOK
    <2> QED
      BY <1>2, <2>1, <2>2 DEF Deliver, Take
  <1>3. CASE ~Deliver
    <2>1. UNCHANGED <<sending, pos>>
      BY <1>3 DEF Next, Handler, Register, ClientLeaves, Disconnect, Refuse, Breaks, Request,
                  Commit, Publish, PublishLost, Subscribe, ListenerFails, loopVars
    <2> QED
      BY <1>1, <1>3, <2>1
  <1> QED
    BY <1>2, <1>3

LEMMA LineStep ==
  ASSUME TypeOK, Queue, Next, NEW i \in DOMAIN buffer, phase'[buffer[i]] = "queued"
  PROVE  \E j \in DOMAIN buffer' : /\ buffer'[j] = buffer[i]
                                   /\ j <= i
                                   /\ sending = NoMessage /\ Deliver => j < i
  <1>1. /\ buffer \in Seq(Messages) /\ DOMAIN buffer = 1..Len(buffer) /\ Len(buffer) \in Nat
        /\ i \in 1..Len(buffer) /\ buffer[i] \in Messages
    BY LenProperties DEF TypeOK
  <1>2. sending = NoMessage /\ Deliver => Take
    BY DEF Deliver, SendNext, Finish
  <1>3. CASE Take
    <2>1. /\ buffer # <<>> /\ buffer' = Tail(buffer)
          /\ phase' = [phase EXCEPT ![Head(buffer)] = "sending"]
      BY <1>3 DEF Take
    <2>2. Head(buffer) = buffer[1] /\ Head(buffer) \in Messages
      BY <1>1, <2>1, HeadTailProperties
    <2>3. i # 1
      BY <2>1, <2>2 DEF TypeOK
    <2>4. Len(buffer') = Len(buffer) - 1 /\ \A j \in 1..Len(buffer') : buffer'[j] = buffer[j + 1]
      BY <1>1, <2>1, HeadTailProperties
    <2>5. buffer' \in Seq(Messages)
      BY <1>1, <2>1, HeadTailProperties
    <2>6. i - 1 \in DOMAIN buffer' /\ buffer'[i - 1] = buffer[i] /\ i - 1 < i
      BY <1>1, <2>3, <2>4, <2>5, LenProperties
    <2> QED
      BY <1>1, <2>6
  <1>4. CASE ~Take /\ \E m \in Messages : Publish(m)
    <2>1. PICK m \in Messages : buffer' = Append(buffer, m)
      BY <1>4 DEF Publish
    <2>2. buffer' \in Seq(Messages) /\ Len(buffer') = Len(buffer) + 1 /\ buffer'[i] = buffer[i]
      BY <1>1, <2>1, AppendProperties
    <2>3. i \in DOMAIN buffer'
      BY <1>1, <2>2, LenProperties
    <2> QED
      BY <1>1, <1>4, <1>2, <2>2, <2>3
  <1>5. CASE ListenerFails
    <2>1. phase[buffer[i]] = "queued"
      BY DEF Queue
    <2> QED
      BY <1>1, <1>5, <2>1 DEF ListenerFails
  <1>6. CASE ~Take /\ ~ListenerFails /\ ~\E m \in Messages : Publish(m)
    <2>1. buffer' = buffer
      BY <1>6 DEF Next, Handler, Register, ClientLeaves, Disconnect, Refuse, Breaks, Request,
                  Commit, PublishLost, Subscribe, Deliver, SendNext, Finish, LoopEnds,
                  listenerVars
    <2> QED
      BY <1>1, <1>6, <1>2, <2>1
  <1> QED
    BY <1>3, <1>4, <1>5, <1>6

\* The listener needs a bounded number of steps for each message, whatever sockets come
\* and go: each goes on to a further socket, of which there are finitely many, or to the
\* next message, and nothing sets it back.  With a listener that is scheduled, that
\* delivers every message it does not lose.
THEOREM DeliveryIsBounded ==
  ASSUME IsFiniteSet(Sockets)
  PROVE  Spec => []LoopBounded /\ [][LoopMoves]_vars /\ [][LineMoves]_vars
  <1>1. Spec => []LoopBounded
    BY Bound, TypeCorrect, Singles, PTL DEF Spec
  <1>2. TypeOK /\ Delivery /\ [Next]_vars => [LoopMoves]_vars
    BY LoopStep DEF Delivery, LoopMoves
  <1>3. TypeOK /\ Delivery /\ [Next]_vars => [LineMoves]_vars
    BY LineStep DEF Delivery, LineMoves
  <1> QED
    BY <1>1, <1>2, <1>3, TypeCorrect, Deliveries, PTL DEF Spec
===============================================================================
