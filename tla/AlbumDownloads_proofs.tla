------------------------ MODULE AlbumDownloads_proofs ------------------------
(***************************************************************************)
(* For any albums, attempts, requests, sessions and faults: the state is type *)
(* correct, the dispatcher is held by the attempt whose POST is in flight, an *)
(* album and a durable request have one attempt each, no accepted attempt is *)
(* posted again, and an answer that comes too late changes no attempt.       *)
(***************************************************************************)
EXTENDS AlbumDownloads, SequenceTheorems, FiniteSetTheorems, WellFoundedInduction, TLAPS

\* The states of the owner.
Owners ==
    [operations : Seq(Operations), inflight : AttemptIds \cup {None},
     shadows : SUBSET RequestIds, downloaded : SUBSET Albums,
     failed : SUBSET Albums, exchange : Exchanges \cup {None}]

\* Attempts have names and albums of their own; "top" is the last name given.
Distinct(d, top) ==
    /\ \A i, j \in 1..Len(d.operations) :
          \/ d.operations[i].id = d.operations[j].id
          \/ d.operations[i].album = d.operations[j].album
          => i = j
    /\ \A i \in 1..Len(d.operations) : d.operations[i].id <= top

\* The request of an attempt is one for its album, and as long as it is the latest
\* the attempt is an accepted one.  An attempt made of a request has the latest.
Owned(d, reqs) ==
    \A i \in 1..Len(d.operations) :
        /\ d.operations[i].request # None =>
              /\ d.operations[i].request \in 1..Len(reqs)
              /\ reqs[d.operations[i].request].album = d.operations[i].album
        /\ d.operations[i].request \in Latest(reqs) =>
              d.operations[i].dispatched /\ d.operations[i].confirmed
        /\ d.operations[i].id \in RequestIds =>
              /\ d.operations[i].request = d.operations[i].id
              /\ d.operations[i].id \in Latest(reqs)

\* The dispatcher is held for what is in flight.
Locked(d) ==
    /\ d.inflight # None => IsPost(d.exchange) /\ d.exchange.id = d.inflight
    /\ \A i \in 1..Len(d.operations) :
          d.operations[i].pending => d.operations[i].id = d.inflight

\* What is in flight is for the album of its attempt, and for no request's.
Posting(d, reqs, top) ==
    IsPost(d.exchange) =>
        /\ d.exchange.id <= top
        /\ \A i \in 1..Len(d.operations) :
              /\ d.operations[i].id = d.exchange.id =>
                    d.operations[i].album = d.exchange.album
              /\ d.operations[i].id \in RequestIds =>
                    d.operations[i].album # d.exchange.album
        /\ d.exchange.answer # None /\ d.exchange.answer.request # None =>
              /\ d.exchange.answer.request \in 1..Len(reqs)
              /\ reqs[d.exchange.answer.request].album = d.exchange.album

Sane(d, reqs, top) ==
    /\ d \in Owners
    /\ Distinct(d, top) /\ Owned(d, reqs) /\ Locked(d) /\ Posting(d, reqs, top)

\* Where the attempts of e come from, if none is new.
Kept(d, e) ==
    \A j \in 1..Len(e.operations) : \E i \in 1..Len(d.operations) :
        /\ e.operations[j].id = d.operations[i].id
        /\ e.operations[j].album = d.operations[i].album
        /\ e.operations[j].request = d.operations[i].request

\* A POST that goes out is for an attempt that was there, and was not accepted
\* under the latest request.
Sent(d, e, reqs) ==
    \/ e.exchange = d.exchange
    \/ /\ d.exchange = None /\ IsPost(e.exchange)
       /\ \E i \in 1..Len(d.operations) :
             /\ d.operations[i].id = e.exchange.id
             /\ d.operations[i].request \notin Latest(reqs)

\* The attempt whose POST is in flight is still there.
Carried(d, reqs) ==
    IsPost(d.exchange) =>
        \E i \in 1..Len(d.operations) : /\ d.operations[i].id = d.exchange.id
                                        /\ d.operations[i].request \notin Latest(reqs)

-----------------------------------------------------------------------------
(* Induction over the natural numbers, for a set of them.                  *)

LEMMA LeastNumber ==
    \A T \in SUBSET Nat : T # {} => \E x \in T : \A y \in T : ~(y < x)
  <1> TAKE T \in SUBSET Nat
  <1> HAVE T # {}
  <1> DEFINE R == OpToRel(<, Nat)
  <1>1. IsWellFoundedOn(R, Nat)
    BY NatLessThanWellFounded
  <1>2. \A x, y \in Nat : x < y => <<x, y>> \in R
    BY DEF OpToRel
  <1> HIDE DEF R
  <1>3. \E x \in T : \A y \in T : ~(<<y, x>> \in R)
    BY <1>1, WFMin
  <1> QED
    BY <1>2, <1>3

LEMMA NatInduct ==
    \A T \in SUBSET Nat : 0 \in T /\ (\A n \in T : n + 1 \in T) => T = Nat
  <1> SUFFICES ASSUME NEW T \in SUBSET Nat, 0 \in T, \A n \in T : n + 1 \in T,
                      Nat \ T # {}
               PROVE  FALSE
    OBVIOUS
  <1>1. PICK x \in Nat \ T : \A y \in Nat \ T : ~(y < x)
    BY LeastNumber
  <1>2. x - 1 \in Nat /\ x - 1 < x /\ (x - 1) + 1 = x
    <2>1. x # 0
      OBVIOUS
    <2> QED
      BY <2>1
  <1> QED
    BY <1>1, <1>2

\* A value that is computed step by step: there is such a function ...
Stepping(N, D, step) == step \in [1..N -> [D -> D]]

Folds(N, D, first, step, f) ==
    /\ f \in [0..N -> D] /\ f[0] = first
    /\ \A n \in 1..N : f[n] = step[n][f[n - 1]]

LEMMA FoldExists ==
    \A N \in Nat : \A D, first, step :
        first \in D /\ Stepping(N, D, step) => \E f : Folds(N, D, first, step, f)
  <1> SUFFICES ASSUME NEW N \in Nat, NEW D, NEW first \in D, NEW step,
                      Stepping(N, D, step)
               PROVE  \E f : Folds(N, D, first, step, f)
    OBVIOUS
  <1>0. step \in [1..N -> [D -> D]]
    BY DEF Stepping
  <1> DEFINE Upto(n, f) == /\ f \in [0..n -> D] /\ f[0] = first
                           /\ \A m \in 1..n : f[m] = step[m][f[m - 1]]
             T == {n \in Nat : n <= N => \E f : Upto(n, f)}
  <1>1. 0 \in T
    <2>1. Upto(0, [m \in 0..0 |-> first])
      OBVIOUS
    <2> QED
      BY <2>1
  <1>2. ASSUME NEW n \in T PROVE n + 1 \in T
    <2> SUFFICES ASSUME n + 1 <= N PROVE \E f : Upto(n + 1, f)
      OBVIOUS
    <2>1. PICK f : Upto(n, f)
      OBVIOUS
    <2> DEFINE g == [m \in 0..(n + 1) |-> IF m <= n THEN f[m] ELSE step[n + 1][f[n]]]
    <2>2. n + 1 \in 1..N /\ f[n] \in D /\ step[n + 1][f[n]] \in D
      BY <1>0, <2>1
    <2>3. g \in [0..(n + 1) -> D] /\ g[0] = first
      BY <2>1, <2>2
    <2>4. \A m \in 1..(n + 1) : g[m] = step[m][g[m - 1]]
      <3> TAKE m \in 1..(n + 1)
      <3>1. m - 1 \in 0..n /\ g[m - 1] = f[m - 1]
        OBVIOUS
      <3>2. CASE m <= n
        BY <2>1, <3>1, <3>2
      <3>3. CASE m = n + 1
        BY <3>1, <3>3
      <3> QED
        BY <3>2, <3>3
    <2> HIDE DEF g
    <2>5. Upto(n + 1, g)
      BY <2>3, <2>4
    <2> QED
      BY <2>5
  <1>3. T = Nat
    <2>1. T \in SUBSET Nat
      OBVIOUS
    <2> HIDE DEF T
    <2> QED
      BY <1>1, <1>2, <2>1, NatInduct
  <1>4. PICK f : Upto(N, f)
    BY <1>3
  <1> QED
    BY <1>4 DEF Folds

\* ... and what its steps keep is true of its last value.
LEMMA FoldKeeps ==
    ASSUME NEW N \in Nat, NEW f, NEW Good \in SUBSET (0..N), 0 \in Good,
           \A n \in 1..N : n - 1 \in Good => n \in Good
    PROVE  N \in Good
  <1> DEFINE T == {n \in Nat : n <= N => n \in Good}
  <1>1. 0 \in T
    OBVIOUS
  <1>2. ASSUME NEW n \in T PROVE n + 1 \in T
    <2>1. CASE n + 1 <= N
      <3>1. n + 1 \in 1..N /\ (n + 1) - 1 = n /\ n <= N
        BY <2>1
      <3> QED
        BY <3>1
    <2>2. CASE ~(n + 1 <= N)
      BY <2>2
    <2> QED
      BY <2>1, <2>2
  <1>3. T \in SUBSET Nat
    OBVIOUS
  <1>4. N \in T
    <2> HIDE DEF T
    <2> QED
      BY <1>1, <1>2, <1>3, NatInduct
  <1> QED
    BY <1>4

-----------------------------------------------------------------------------
(* The operators on sequences.                                             *)

\* All of T, in order.
Enumerates(s, T) ==
    /\ s \in Seq(T)
    /\ \A i, j \in 1..Len(s) : i < j => s[i] < s[j]
    /\ \A x \in T : \E i \in 1..Len(s) : s[i] = x

LEMMA BeforeLast ==
    \A l, m \in Nat : \A x \in 1..m : m = l + 1 /\ x # m => x \in 1..l
  OBVIOUS

CountsUp(S, n, f) ==
    f = [k \in 0..n |-> IF k = 0 THEN << >>
                        ELSE IF k \in S THEN Append(f[k - 1], k) ELSE f[k - 1]]

LEMMA InOrderRuns ==
    \A S, n : (\E f : CountsUp(S, n, f))
        => \E f : CountsUp(S, n, f) /\ InOrder(S, n) = f[n]
  BY DEF InOrder, CountsUp

LEMMA InOrderEnumerates ==
    ASSUME NEW n \in Nat, NEW S
    PROVE  Enumerates(InOrder(S, n), S \cap (1..n))
  <1> DEFINE step == [k \in 1..n |-> [s \in Seq(Nat) |-> IF k \in S THEN Append(s, k)
                                                         ELSE s]]
  <1>1. step \in [1..n -> [Seq(Nat) -> Seq(Nat)]]
    <2> SUFFICES ASSUME NEW k \in 1..n, NEW s \in Seq(Nat) PROVE Append(s, k) \in Seq(Nat)
      OBVIOUS
    <2> QED
      BY AppendProperties
  <1>2. \A k \in 1..n : \A s \in Seq(Nat) :
            step[k][s] = IF k \in S THEN Append(s, k) ELSE s
    OBVIOUS
  <1> HIDE DEF step
  <1>3. PICK g \in [0..n -> Seq(Nat)] :
            g[0] = << >> /\ \A k \in 1..n : g[k] = step[k][g[k - 1]]
    <2>1. Stepping(n, Seq(Nat), step) /\ << >> \in Seq(Nat)
      BY <1>1 DEF Stepping
    <2>2. PICK g : Folds(n, Seq(Nat), << >>, step, g)
      BY <2>1, FoldExists
    <2> QED
      BY <2>2 DEF Folds
  <1>4. CountsUp(S, n, g)
    <2>1. \A k \in 0..n : g[k] = IF k = 0 THEN << >>
                        ELSE IF k \in S THEN Append(g[k - 1], k) ELSE g[k - 1]
      <3> TAKE k \in 0..n
      <3>1. CASE k = 0
        BY <1>3, <3>1
      <3>2. CASE k # 0
        <4>1. k \in 1..n /\ k - 1 \in 0..n /\ g[k - 1] \in Seq(Nat)
          BY <3>2
        <4> QED
          BY <1>2, <1>3, <3>2, <4>1
      <3> QED
        BY <3>1, <3>2
    <2> QED
      BY <2>1 DEF CountsUp
  <1>5. PICK f : CountsUp(S, n, f) /\ InOrder(S, n) = f[n]
    BY <1>4, InOrderRuns
  <1>6. \A k \in 0..n : f[k] = IF k = 0 THEN << >>
                        ELSE IF k \in S THEN Append(f[k - 1], k) ELSE f[k - 1]
    <2> DEFINE body == [k \in 0..n |-> IF k = 0 THEN << >>
                        ELSE IF k \in S THEN Append(f[k - 1], k) ELSE f[k - 1]]
    <2>1. f = body
      BY <1>5 DEF CountsUp
    <2>2. \A k \in 0..n : body[k] = IF k = 0 THEN << >>
                        ELSE IF k \in S THEN Append(f[k - 1], k) ELSE f[k - 1]
      OBVIOUS
    <2> HIDE DEF body
    <2> QED
      BY <2>1, <2>2
  <1> DEFINE Good == {k \in 0..n : Enumerates(f[k], S \cap (1..k))}
  <1>7. 0 \in Good
    <2>1. f[0] = << >>
      BY <1>6
    <2>2. Enumerates(<< >>, S \cap (1..0))
      BY DEF Enumerates
    <2> QED
      BY <2>1, <2>2
  <1>8. ASSUME NEW k \in 1..n, k - 1 \in Good PROVE k \in Good
    <2>1. Enumerates(f[k - 1], S \cap (1..(k - 1)))
      BY <1>8
    <2> DEFINE s == f[k - 1]
               T == S \cap (1..(k - 1))
               U == S \cap (1..k)
    <2>2. /\ s \in Seq(T) /\ Len(s) \in Nat
          /\ \A i \in 1..Len(s) : s[i] \in T
          /\ \A i, j \in 1..Len(s) : i < j => s[i] < s[j]
          /\ \A x \in T : \E i \in 1..Len(s) : s[i] = x
      BY <2>1, LenProperties, ElementOfSeq DEF Enumerates
    <2>3. k \in 0..n /\ k # 0
      OBVIOUS
    <2>4. CASE k \in S
      <3> DEFINE t == Append(s, k)
      <3>1. f[k] = t
        BY <1>6, <2>3, <2>4
      <3> HIDE DEF s
      <3>2. /\ t \in Seq(U) /\ Len(t) = Len(s) + 1 /\ t[Len(t)] = k
            /\ \A i \in 1..Len(s) : t[i] = s[i]
        <4>1. s \in Seq(U) /\ k \in U
          BY <2>2, <2>4
        <4> HIDE DEF T, U
        <4>2. /\ t \in Seq(U) /\ Len(t) = Len(s) + 1 /\ t[Len(s) + 1] = k
              /\ \A i \in 1..Len(s) : t[i] = s[i]
          BY <4>1, AppendProperties
        <4> QED
          BY <4>2
      <3> HIDE DEF t
      <3>3. \A i, j \in 1..Len(t) : i < j => t[i] < t[j]
        <4> TAKE i, j \in 1..Len(t)
        <4> HAVE i < j
        <4>0. Len(s) \in Nat /\ Len(t) = Len(s) + 1 /\ Len(t) \in Nat
          BY <2>2, <3>2
        <4>1. i \in 1..Len(s) /\ t[i] = s[i] /\ s[i] \in 1..(k - 1)
          <5>1. i \in 1..Len(s)
            BY <4>0
          <5>2. s[i] \in T
            BY <2>2, <5>1
          <5> QED
            BY <3>2, <5>1, <5>2
        <4>2. CASE j = Len(t)
          <5>1. t[j] = k
            BY <3>2, <4>2
          <5> QED
            BY <4>1, <5>1
        <4>3. CASE j # Len(t)
          <5>1. j \in 1..Len(s)
            BY <4>0, <4>3, BeforeLast, Zenon
          <5>2. t[j] = s[j]
            BY <3>2, <5>1
          <5>3. s[i] < s[j]
            BY <2>2, <4>1, <5>1, Zenon
          <5> QED
            BY <4>1, <5>2, <5>3
        <4> QED
          BY <4>2, <4>3
      <3>4. \A x \in U : \E i \in 1..Len(t) : t[i] = x
        <4> TAKE x \in U
        <4>0. Len(t) \in 1..Len(t) /\ \A i \in 1..Len(s) : i \in 1..Len(t)
          <5>1. Len(s) \in Nat /\ Len(t) = Len(s) + 1
            BY <2>2, <3>2
          <5> QED
            BY <5>1
        <4>1. CASE x = k
          BY <3>2, <4>0, <4>1
        <4>2. CASE x # k
          <5>1. x \in T
            BY <4>2
          <5>2. PICK i \in 1..Len(s) : s[i] = x
            BY <2>2, <5>1
          <5>3. t[i] = x
            BY <3>2, <5>2
          <5> QED
            BY <4>0, <5>3
        <4> QED
          BY <4>1, <4>2
      <3> QED
        BY <2>3, <3>1, <3>2, <3>3, <3>4 DEF Enumerates
    <2>5. CASE k \notin S
      <3>1. f[k] = s
        BY <1>6, <2>3, <2>5
      <3>2. U = T
        BY <2>5
      <3> QED
        BY <2>1, <2>3, <3>1, <3>2
    <2> QED
      BY <2>4, <2>5
  <1>9. n \in Good
    <2>1. Good \in SUBSET (0..n)
      OBVIOUS
    <2> HIDE DEF Good
    <2> QED
      BY <1>7, <1>8, <2>1, FoldKeeps
  <1> QED
    BY <1>5, <1>9

\* All of T, each once.
OnceEach(s, T) ==
    /\ s \in Seq(T) /\ Len(s) \in Nat
    /\ \A i \in 1..Len(s) : s[i] \in T
    /\ \A i, j \in 1..Len(s) : s[i] = s[j] => i = j
    /\ \A x \in T : \E i \in 1..Len(s) : s[i] = x

LEMMA EnumeratesOnce ==
    \A T \in SUBSET Nat : \A s : Enumerates(s, T) => OnceEach(s, T)
  <1> SUFFICES ASSUME NEW T \in SUBSET Nat, NEW s, Enumerates(s, T)
               PROVE  OnceEach(s, T)
    OBVIOUS
  <1>1. /\ s \in Seq(T) /\ Len(s) \in Nat
        /\ \A i \in 1..Len(s) : s[i] \in T
        /\ \A i, j \in 1..Len(s) : i < j => s[i] < s[j]
        /\ \A x \in T : \E i \in 1..Len(s) : s[i] = x
    BY LenProperties, ElementOfSeq DEF Enumerates
  <1>2. ASSUME NEW i \in 1..Len(s), NEW j \in 1..Len(s), s[i] = s[j] PROVE i = j
    <2>1. s[i] \in Nat
      BY <1>1
    <2>2. ~(i < j) /\ ~(j < i)
      BY <1>1, <1>2, <2>1
    <2> QED
      BY <2>2
  <1> QED
    BY <1>1, <1>2 DEF OnceEach

-----------------------------------------------------------------------------
(* A queue whose attempts come from another one, each from one of its own.  *)

Draws(q, ops, g) ==
    \A n \in 1..Len(q) : /\ g[n] \in 1..Len(ops)
                         /\ q[n].id = ops[g[n]].id /\ q[n].album = ops[g[n]].album
                         /\ q[n].request = ops[g[n]].request
                         /\ q[n].pending => ops[g[n]].pending

Apart(q, g) == \A m, n \in 1..Len(q) : g[m] = g[n] => m = n

Settled(q, reqs) ==
    \A n \in 1..Len(q) :
        q[n].request \in Latest(reqs) => q[n].dispatched /\ q[n].confirmed

\* The dispatcher is held as before, or by no attempt any more.
StillHeld(d, e) ==
    \/ e.inflight = d.inflight
    \/ e.inflight = None /\ \A n \in 1..Len(e.operations) : ~e.operations[n].pending

LEMMA Redrawn ==
    ASSUME NEW reqs, NEW top, NEW d, Sane(d, reqs, top), NEW e \in Owners,
           e.exchange = d.exchange, StillHeld(d, e), NEW g,
           Draws(e.operations, d.operations, g), Apart(e.operations, g),
           Settled(e.operations, reqs)
    PROVE  Sane(e, reqs, top) /\ Kept(d, e) /\ Sent(d, e, reqs)
  <1> DEFINE ops == d.operations
             q == e.operations
  <1>1. \A n \in 1..Len(q) : /\ g[n] \in 1..Len(ops)
                             /\ q[n].id = ops[g[n]].id /\ q[n].album = ops[g[n]].album
                             /\ q[n].request = ops[g[n]].request
                             /\ q[n].pending => ops[g[n]].pending
    BY DEF Draws
  <1>2. /\ \A i, j \in 1..Len(ops) :
              ops[i].id = ops[j].id \/ ops[i].album = ops[j].album => i = j
        /\ \A i \in 1..Len(ops) : ops[i].id <= top
    BY DEF Sane, Distinct
  <1>3. \A i \in 1..Len(ops) :
           /\ ops[i].request # None => /\ ops[i].request \in 1..Len(reqs)
                                       /\ reqs[ops[i].request].album = ops[i].album
           /\ ops[i].id \in RequestIds => /\ ops[i].request = ops[i].id
                                          /\ ops[i].id \in Latest(reqs)
    BY DEF Sane, Owned
  <1>4. Locked(d) /\ Posting(d, reqs, top)
    BY DEF Sane
  <1> HIDE DEF ops, q
  <1>5. Distinct(e, top)
    <2>1. ASSUME NEW m \in 1..Len(q), NEW n \in 1..Len(q),
                 q[m].id = q[n].id \/ q[m].album = q[n].album
          PROVE  m = n
      <3>0. \/ ops[g[m]].id = ops[g[n]].id
            \/ ops[g[m]].album = ops[g[n]].album
        BY <1>1, <2>1
      <3>1. g[m] = g[n]
        <4>1. g[m] \in 1..Len(ops) /\ g[n] \in 1..Len(ops)
          BY <1>1
        <4> QED
          BY <1>2, <3>0, <4>1
      <3> QED
        BY <3>1 DEF Apart, q
    <2>2. \A n \in 1..Len(q) : q[n].id <= top
      BY <1>1, <1>2
    <2> QED
      BY <2>1, <2>2 DEF Distinct, q
  <1>6. Owned(e, reqs)
    <2>1. \A n \in 1..Len(q) :
             /\ q[n].request # None => /\ q[n].request \in 1..Len(reqs)
                                       /\ reqs[q[n].request].album = q[n].album
             /\ q[n].id \in RequestIds => /\ q[n].request = q[n].id
                                          /\ q[n].id \in Latest(reqs)
      BY <1>1, <1>3
    <2> QED
      BY <2>1 DEF Owned, Settled, q
  <1>7. Locked(e)
    <2>1. \A n \in 1..Len(q) : q[n].pending => q[n].id = d.inflight
      BY <1>1, <1>4 DEF Locked, ops
    <2>2. CASE e.inflight = d.inflight
      BY <1>4, <2>1, <2>2 DEF Locked, q
    <2>3. CASE e.inflight = None /\ \A n \in 1..Len(q) : ~q[n].pending
      BY <2>3 DEF Locked, q
    <2> QED
      BY <2>2, <2>3 DEF StillHeld, q
  <1>8. Posting(e, reqs, top)
    <2> SUFFICES ASSUME IsPost(d.exchange) PROVE Posting(e, reqs, top)
      BY DEF Posting
    <2>1. \A i \in 1..Len(ops) :
              /\ ops[i].id = d.exchange.id => ops[i].album = d.exchange.album
              /\ ops[i].id \in RequestIds => ops[i].album # d.exchange.album
      BY <1>4 DEF Posting, ops
    <2>2. \A n \in 1..Len(q) :
              /\ q[n].id = d.exchange.id => q[n].album = d.exchange.album
              /\ q[n].id \in RequestIds => q[n].album # d.exchange.album
      <3> TAKE n \in 1..Len(q)
      <3>1. g[n] \in 1..Len(ops) /\ q[n].id = ops[g[n]].id /\ q[n].album = ops[g[n]].album
        BY <1>1
      <3> QED
        BY <2>1, <3>1
    <2> QED
      BY <1>4, <2>2 DEF Posting, q
  <1>9. Kept(d, e)
    BY <1>1 DEF Kept, ops, q
  <1> QED
    BY <1>5, <1>6, <1>7, <1>8, <1>9 DEF Sane, Sent

-----------------------------------------------------------------------------
(* The owner's record and the records of its queue.                        *)

LEMMA OwnerFields ==
    ASSUME NEW d \in Owners
    PROVE  /\ d.operations \in Seq(Operations) /\ Len(d.operations) \in Nat
           /\ \A i \in 1..Len(d.operations) : d.operations[i] \in Operations
           /\ d.inflight \in AttemptIds \cup {None} /\ d.shadows \in SUBSET RequestIds
           /\ d.downloaded \in SUBSET Albums /\ d.failed \in SUBSET Albums
           /\ d.exchange \in Exchanges \cup {None}
  <1>1. /\ d.operations \in Seq(Operations)
        /\ d.inflight \in AttemptIds \cup {None} /\ d.shadows \in SUBSET RequestIds
        /\ d.downloaded \in SUBSET Albums /\ d.failed \in SUBSET Albums
        /\ d.exchange \in Exchanges \cup {None}
    BY DEF Owners
  <1> QED
    BY <1>1, LenProperties, ElementOfSeq

LEMMA OperationFields ==
    ASSUME NEW o \in Operations
    PROVE  /\ o.id \in Ids /\ o.album \in Albums /\ o.request \in RequestIds \cup {None}
           /\ o.dispatched \in BOOLEAN /\ o.pending \in BOOLEAN /\ o.confirmed \in BOOLEAN
           /\ o.grace \in BOOLEAN /\ o.conflict \in BOOLEAN
  BY DEF Operations

LEMMA SeqMade ==
    ASSUME NEW S, NEW n \in Nat, NEW q, q = [i \in 1..n |-> q[i]],
           \A i \in 1..n : q[i] \in S
    PROVE  q \in Seq(S) /\ Len(q) = n
  OBVIOUS

LEMMA RebuildFields ==
    ASSUME NEW d \in Owners, NEW e, e = Rebuild(d)
    PROVE  /\ e \in Owners
           /\ e.exchange = d.exchange /\ e.inflight = d.inflight /\ e.shadows = d.shadows
           /\ e.failed = d.failed /\ Len(e.operations) = Len(d.operations)
           /\ \A i \in 1..Len(d.operations) :
                 /\ e.operations[i].id = d.operations[i].id
                 /\ e.operations[i].album = d.operations[i].album
                 /\ e.operations[i].request = d.operations[i].request
                 /\ e.operations[i].pending = d.operations[i].pending
                 /\ e.operations[i].confirmed = d.operations[i].confirmed
                 /\ e.operations[i].dispatched =
                        IF i = 1 THEN d.operations[i].dispatched
                        ELSE d.operations[i].confirmed
  <1> DEFINE ops == d.operations
             q == [i \in 1..Len(ops) |->
                      [ops[i] EXCEPT !.dispatched =
                          IF i = 1 THEN @ ELSE ops[i].confirmed]]
  <1>0. /\ ops \in Seq(Operations) /\ Len(ops) \in Nat
        /\ \A i \in 1..Len(ops) : ops[i] \in Operations
    BY OwnerFields
  <1>1. \A i \in 1..Len(ops) :
           /\ q[i] \in Operations
           /\ q[i].id = ops[i].id /\ q[i].album = ops[i].album
           /\ q[i].request = ops[i].request /\ q[i].pending = ops[i].pending
           /\ q[i].confirmed = ops[i].confirmed
           /\ q[i].dispatched = IF i = 1 THEN ops[i].dispatched ELSE ops[i].confirmed
    <2> TAKE i \in 1..Len(ops)
    <2> DEFINE o == ops[i]
               b == IF i = 1 THEN o.dispatched ELSE o.confirmed
    <2>1. q[i] = [o EXCEPT !.dispatched = b] /\ o \in Operations /\ b \in BOOLEAN
      <3>1. o \in Operations
        BY <1>0
      <3>2. b \in BOOLEAN
        BY <3>1, OperationFields
      <3> QED
        BY <3>1, <3>2
    <2> HIDE DEF o, b, q
    <2>2. [o EXCEPT !.dispatched = b] \in Operations
      BY <2>1 DEF Operations
    <2>3. q[i].id = o.id /\ q[i].album = o.album /\ q[i].request = o.request
          /\ q[i].pending = o.pending /\ q[i].confirmed = o.confirmed
          /\ q[i].dispatched = b
      BY <2>1 DEF Operations
    <2> QED
      BY <2>1, <2>2, <2>3 DEF o, b
  <1>2. q \in Seq(Operations) /\ Len(q) = Len(ops)
    <2>1. \A i \in 1..Len(ops) : q[i] \in Operations
      BY <1>1
    <2> QED
      <3>1. q = [i \in 1..Len(ops) |-> q[i]]
        OBVIOUS
      <3> HIDE DEF q
      <3> QED
        BY <1>0, <2>1, <3>1, SeqMade
  <1>3. e = [d EXCEPT !.operations = q, !.downloaded = @ \ AlbumsOf(ops)]
    BY DEF Rebuild
  <1> HIDE DEF q
  <1>4. /\ e \in Owners /\ e.operations = q /\ e.exchange = d.exchange
        /\ e.inflight = d.inflight /\ e.shadows = d.shadows /\ e.failed = d.failed
    BY <1>2, <1>3 DEF Owners
  <1> QED
    BY <1>1, <1>2, <1>4

-----------------------------------------------------------------------------
(* The functions of the owner: rebuilding, and dropping attempts.          *)

LEMMA SaneParts ==
    ASSUME NEW reqs, NEW top, NEW d, Sane(d, reqs, top)
    PROVE  d \in Owners /\ Distinct(d, top) /\ Owned(d, reqs) /\ Locked(d)
           /\ Posting(d, reqs, top) /\ Settled(d.operations, reqs)
  BY DEF Sane, Owned, Settled

LEMMA RebuildSane ==
    ASSUME NEW reqs, NEW top, NEW d, Sane(d, reqs, top), NEW e, e = Rebuild(d)
    PROVE  /\ Sane(e, reqs, top) /\ Kept(d, e) /\ Kept(e, d)
           /\ e.exchange = d.exchange /\ e.inflight = d.inflight
           /\ e.shadows = d.shadows
  <1>1. /\ d \in Owners /\ Settled(d.operations, reqs)
    BY SaneParts
  <1> DEFINE ops == d.operations
             q == e.operations
  <1>2. /\ e \in Owners /\ e.exchange = d.exchange /\ e.inflight = d.inflight
        /\ e.shadows = d.shadows /\ Len(q) = Len(ops)
        /\ \A i \in 1..Len(ops) :
              /\ q[i].id = ops[i].id /\ q[i].album = ops[i].album
              /\ q[i].request = ops[i].request /\ q[i].pending = ops[i].pending
              /\ q[i].confirmed = ops[i].confirmed
              /\ q[i].dispatched = IF i = 1 THEN ops[i].dispatched ELSE ops[i].confirmed
    BY <1>1, RebuildFields
  <1> DEFINE g == [i \in 1..Len(ops) |-> i]
  <1>3. \A i \in 1..Len(ops) : g[i] = i
    OBVIOUS
  <1> HIDE DEF g
  <1>4. Draws(q, ops, g) /\ Apart(q, g)
    BY <1>2, <1>3 DEF Draws, Apart
  <1>5. Settled(q, reqs)
    <2> SUFFICES ASSUME NEW i \in 1..Len(q), q[i].request \in Latest(reqs)
                 PROVE  q[i].dispatched /\ q[i].confirmed
      BY DEF Settled
    <2>1. i \in 1..Len(ops) /\ ops[i].request \in Latest(reqs)
      BY <1>2
    <2>2. ops[i].dispatched /\ ops[i].confirmed
      BY <1>1, <2>1 DEF Settled
    <2> QED
      BY <1>2, <2>1, <2>2
  <1>6. Sane(e, reqs, top) /\ Kept(d, e)
    BY <1>2, <1>4, <1>5, Redrawn DEF StillHeld
  <1>7. Kept(e, d)
    BY <1>2 DEF Kept
  <1> QED
    BY <1>2, <1>6, <1>7

\* Dropping attempts: e is d with those at the places of S, whatever else becomes
\* of the albums.
Restricted(d, e, S) ==
    \E down, fail \in SUBSET Albums :
        e = [d EXCEPT !.operations = Only(d, S), !.downloaded = down, !.failed = fail]

\* The same attempts and nothing else of d has changed.
Picked(d, e, S) ==
    /\ e.exchange = d.exchange /\ e.inflight = d.inflight /\ e.shadows = d.shadows
    /\ \A n \in 1..Len(e.operations) :
          \E i \in S : /\ i \in 1..Len(d.operations)
                       /\ e.operations[n] = d.operations[i]
    /\ \A i \in S : i \in 1..Len(d.operations) =>
          \E n \in 1..Len(e.operations) : e.operations[n] = d.operations[i]

LEMMA OnlySane ==
    ASSUME NEW reqs, NEW top, NEW d, Sane(d, reqs, top), NEW S, NEW e, Restricted(d, e, S)
    PROVE  Sane(e, reqs, top) /\ Kept(d, e) /\ Picked(d, e, S)
  <1>0. PICK down \in SUBSET Albums, fail \in SUBSET Albums :
           e = [d EXCEPT !.operations = Only(d, S), !.downloaded = down, !.failed = fail]
    BY DEF Restricted
  <1> DEFINE ops == d.operations
             N == Len(ops)
             s == InOrder(S, N)
             q == At(ops, s)
  <1>1. /\ d \in Owners /\ Settled(ops, reqs)
    BY SaneParts
  <1>2. ops \in Seq(Operations) /\ N \in Nat /\ \A i \in 1..N : ops[i] \in Operations
    BY <1>1, OwnerFields
  <1> HIDE DEF ops, N
  <1>3. /\ s \in Seq(S \cap (1..N)) /\ Len(s) \in Nat
        /\ \A i \in 1..Len(s) : s[i] \in S \cap (1..N)
        /\ \A i, j \in 1..Len(s) : s[i] = s[j] => i = j
        /\ \A x \in S \cap (1..N) : \E i \in 1..Len(s) : s[i] = x
    <2> DEFINE T == S \cap (1..N)
    <2>1. Enumerates(s, T)
      BY <1>2, InOrderEnumerates
    <2>2. T \in SUBSET Nat
      OBVIOUS
    <2> HIDE DEF s, T
    <2>3. OnceEach(s, T)
      BY <2>1, <2>2, EnumeratesOnce
    <2> QED
      BY <2>3 DEF T, OnceEach
  <1> HIDE DEF s
  <1>4. q \in Seq(Operations) /\ Len(q) = Len(s) /\ \A n \in 1..Len(s) : q[n] = ops[s[n]]
    <2>1. q = [i \in 1..Len(s) |-> ops[s[i]]]
      BY DEF At
    <2>2. \A i \in 1..Len(s) : q[i] = ops[s[i]] /\ q[i] \in Operations
      BY <1>2, <1>3, <2>1
    <2>3. q = [i \in 1..Len(s) |-> q[i]]
      BY <2>1, <2>2
    <2> HIDE DEF q
    <2> QED
      BY <1>3, <2>2, <2>3, SeqMade
  <1>5. e = [d EXCEPT !.operations = q, !.downloaded = down, !.failed = fail]
    BY <1>0 DEF Only, q, s, ops, N
  <1> HIDE DEF q
  <1>6. /\ e \in Owners /\ e.operations = q /\ e.exchange = d.exchange
        /\ e.inflight = d.inflight /\ e.shadows = d.shadows
    BY <1>1, <1>4, <1>5 DEF Owners
  <1>7. Draws(q, ops, s) /\ Apart(q, s)
    <2>1. \A n \in 1..Len(q) : s[n] \in 1..N /\ q[n] = ops[s[n]]
      BY <1>3, <1>4
    <2>2. \A m, n \in 1..Len(q) : s[m] = s[n] => m = n
      BY <1>3, <1>4
    <2> QED
      BY <2>1, <2>2 DEF Draws, Apart, N
  <1>8. Settled(q, reqs)
    <2> SUFFICES ASSUME NEW n \in 1..Len(q), q[n].request \in Latest(reqs)
                 PROVE  q[n].dispatched /\ q[n].confirmed
      BY DEF Settled
    <2>1. s[n] \in 1..N /\ q[n] = ops[s[n]]
      BY <1>3, <1>4
    <2> QED
      BY <1>1, <2>1 DEF Settled, N
  <1>9. Sane(e, reqs, top) /\ Kept(d, e)
    BY <1>6, <1>7, <1>8, Redrawn DEF ops, StillHeld
  <1>10. \A n \in 1..Len(q) : \E i \in S : i \in 1..N /\ q[n] = ops[i]
    BY <1>3, <1>4
  <1>11. \A i \in S : i \in 1..N => \E n \in 1..Len(q) : q[n] = ops[i]
    <2> TAKE i \in S
    <2> HAVE i \in 1..N
    <2>1. PICK n \in 1..Len(s) : s[n] = i
      BY <1>3
    <2> QED
      BY <1>4, <2>1
  <1> QED
    BY <1>6, <1>9, <1>10, <1>11 DEF ops, N, Picked

LEMMA KeptTwice ==
    ASSUME NEW c, NEW d, NEW e, Kept(c, d), Kept(d, e)
    PROVE  Kept(c, e)
  <1> SUFFICES ASSUME NEW j \in 1..Len(e.operations)
               PROVE  \E i \in 1..Len(c.operations) :
                         /\ e.operations[j].id = c.operations[i].id
                         /\ e.operations[j].album = c.operations[i].album
                         /\ e.operations[j].request = c.operations[i].request
    BY DEF Kept
  <1>1. PICK k \in 1..Len(d.operations) :
           /\ e.operations[j].id = d.operations[k].id
           /\ e.operations[j].album = d.operations[k].album
           /\ e.operations[j].request = d.operations[k].request
    BY DEF Kept
  <1>2. PICK i \in 1..Len(c.operations) :
           /\ d.operations[k].id = c.operations[i].id
           /\ d.operations[k].album = c.operations[i].album
           /\ d.operations[k].request = c.operations[i].request
    BY DEF Kept
  <1> QED
    BY <1>1, <1>2

LEMMA KeptItself == \A d : Kept(d, d)
  BY DEF Kept

\* A POST is sent once, and for an attempt that was there.
LEMMA SentTwice ==
    ASSUME NEW c, NEW d, NEW e, NEW reqs, Kept(c, d), Sent(c, d, reqs), Sent(d, e, reqs)
    PROVE  Sent(c, e, reqs)
  <1>1. CASE e.exchange = d.exchange
    BY <1>1 DEF Sent
  <1>2. CASE e.exchange # d.exchange
    <2>1. d.exchange = None /\ IsPost(e.exchange)
      BY <1>2 DEF Sent
    <2>2. PICK i \in 1..Len(d.operations) :
             /\ d.operations[i].id = e.exchange.id
             /\ d.operations[i].request \notin Latest(reqs)
      BY <1>2 DEF Sent
    <2>3. PICK j \in 1..Len(c.operations) :
             /\ d.operations[i].id = c.operations[j].id
             /\ d.operations[i].request = c.operations[j].request
      BY <2>2 DEF Kept
    <2>4. c.operations[j].id = e.exchange.id /\ c.operations[j].request \notin Latest(reqs)
      BY <2>2, <2>3
    <2>5. c.exchange = None \/ d.exchange = c.exchange
      BY DEF Sent
    <2> QED
      BY <2>1, <2>4, <2>5 DEF Sent
  <1> QED
    BY <1>1, <1>2

-----------------------------------------------------------------------------
(* Dispatching the head of the queue.                                      *)

LEMMA IdsApart ==
    /\ RequestIds \subseteq Nat /\ AttemptIds \subseteq Nat
    /\ RequestIds \cap AttemptIds = {} /\ None \notin Ids /\ None \notin Int
  BY DownloadAssumption DEF RequestIds, AttemptIds, Ids

LEMMA PostIsExchange ==
    ASSUME NEW id \in AttemptIds, NEW album \in Albums, NEW p, p = Post(id, album)
    PROVE  /\ p \in Exchanges /\ IsPost(p) /\ p.id = id /\ p.album = album
           /\ p.answer = None
  <1>1. p \in Exchanges
    BY DEF Post, Exchanges
  <1>2. p # None
    BY <1>1, NoneAssumption
  <1> QED
    BY <1>1, <1>2 DEF Post, IsPost

\* What a step of the owner does: the attempts are some of those there were, and no
\* POST is sent for an accepted one.
Works(d, e, reqs, top) == Sane(e, reqs, top) /\ Kept(d, e) /\ Sent(d, e, reqs)

\* The attempt of the POST in flight stays.
Carries(d, e, reqs) == Carried(d, reqs) => Carried(e, reqs)

LEMMA WorksTwice ==
    ASSUME NEW reqs, NEW top, NEW c, NEW d, NEW e,
           Works(c, d, reqs, top), Works(d, e, reqs, top)
    PROVE  Works(c, e, reqs, top)
  <1>1. Kept(c, e)
    BY KeptTwice DEF Works
  <1>2. Sent(c, e, reqs)
    BY SentTwice DEF Works
  <1> QED
    BY <1>1, <1>2 DEF Works

LEMMA WorksItself ==
    ASSUME NEW reqs, NEW top, NEW d, Sane(d, reqs, top)
    PROVE  Works(d, d, reqs, top)
  BY KeptItself DEF Works, Sent

\* The head is promoted.
HeadSent(d, e) ==
    e = [d EXCEPT !.inflight = d.operations[1].id, !.operations[1].pending = TRUE,
                  !.exchange = Post(d.operations[1].id, d.operations[1].album)]

LEMMA SendSane ==
    ASSUME NEW reqs, NEW top, NEW d, Sane(d, reqs, top), CanDispatch(d), NEW e,
           HeadSent(d, e)
    PROVE  Works(d, e, reqs, top) /\ Carries(d, e, reqs) /\ e.shadows = d.shadows
  <1> DEFINE ops == d.operations
             head == ops[1]
             p == Post(head.id, head.album)
             q == [ops EXCEPT ![1].pending = TRUE]
  <1>1. /\ d \in Owners /\ Distinct(d, top) /\ Owned(d, reqs) /\ Locked(d)
        /\ Posting(d, reqs, top) /\ Settled(ops, reqs)
    BY SaneParts
  <1>2. ops \in Seq(Operations) /\ Len(ops) \in Nat /\ \A i \in 1..Len(ops) : ops[i] \in Operations
    BY <1>1, OwnerFields
  <1>3. 1 \in 1..Len(ops) /\ ~head.dispatched /\ d.inflight = None /\ d.exchange = None
    <2>1. ops # << >> /\ ~head.dispatched /\ d.inflight = None /\ d.exchange = None
      BY DEF CanDispatch
    <2>2. Len(ops) # 0
      BY <1>2, <2>1, EmptySeq
    <2> QED
      BY <1>2, <2>1, <2>2
  <1> HIDE DEF ops
  <1>4. /\ head \in Operations /\ head.album \in Albums
        /\ head.request \notin Latest(reqs) /\ head.id \in AttemptIds
    <2>1. head \in Operations
      BY <1>2, <1>3
    <2>2. head.request \notin Latest(reqs)
      BY <1>1, <1>3 DEF Settled
    <2>3. head.id \notin RequestIds
      BY <1>1, <1>3, <2>2 DEF Owned, ops
    <2> QED
      BY <2>1, <2>2, <2>3, OperationFields DEF Ids
  <1> HIDE DEF p
  <1>5. /\ p \in Exchanges /\ IsPost(p) /\ p.id = head.id /\ p.album = head.album
        /\ p.answer = None
    BY <1>4, PostIsExchange DEF p
  <1>6. /\ q \in Seq(Operations) /\ Len(q) = Len(ops)
        /\ \A i \in 1..Len(ops) :
              /\ q[i].id = ops[i].id /\ q[i].album = ops[i].album
              /\ q[i].request = ops[i].request
              /\ q[i].confirmed = ops[i].confirmed /\ q[i].dispatched = ops[i].dispatched
              /\ i # 1 => q[i] = ops[i]
    <2>1. /\ q \in Seq(Operations) /\ Len(q) = Len(ops)
      <3> DEFINE o == [head EXCEPT !.pending = TRUE]
      <3>1. o \in Operations
        BY <1>4 DEF Operations
      <3>2. q = [ops EXCEPT ![1] = o]
        OBVIOUS
      <3> HIDE DEF o, q, head
      <3> QED
        BY <1>2, <1>3, <3>1, <3>2, ExceptSeq
    <2>2. \A i \in 1..Len(ops) : i # 1 => q[i] = ops[i]
      BY <1>2
    <2>3. q[1] = [head EXCEPT !.pending = TRUE]
      <3> DEFINE o == [head EXCEPT !.pending = TRUE]
      <3>1. q = [ops EXCEPT ![1] = o]
        OBVIOUS
      <3> HIDE DEF o, q
      <3>2. q[1] = o
        BY <1>2, <1>3, <3>1, ExceptSeq
      <3> QED
        BY <3>2 DEF o
    <2> HIDE DEF q
    <2>4. /\ q[1].id = head.id /\ q[1].album = head.album
          /\ q[1].request = head.request
          /\ q[1].confirmed = head.confirmed /\ q[1].dispatched = head.dispatched
      BY <1>4, <2>3 DEF Operations
    <2> QED
      BY <2>1, <2>2, <2>4
  <1>7. /\ e \in Owners /\ e.operations = q /\ e.inflight = head.id /\ e.exchange = p
        /\ e.shadows = d.shadows
    <2>1. e = [d EXCEPT !.inflight = head.id, !.operations = q, !.exchange = p]
      BY <1>1 DEF HeadSent, Owners, p, q, head, ops
    <2> HIDE DEF q, head
    <2> QED
      BY <1>1, <1>4, <1>5, <1>6, <2>1 DEF Owners
  <1> HIDE DEF q
  <1>8. \A i, j \in 1..Len(ops) :
            ops[i].id = ops[j].id \/ ops[i].album = ops[j].album => i = j
    BY <1>1 DEF Distinct, ops
  <1>9. Distinct(e, top)
    <2>1. \A i \in 1..Len(q) : q[i].id <= top
      BY <1>1, <1>6 DEF Distinct, ops
    <2>2. ASSUME NEW i \in 1..Len(q), NEW j \in 1..Len(q),
                 q[i].id = q[j].id \/ q[i].album = q[j].album
          PROVE  i = j
      <3>1. i \in 1..Len(ops) /\ j \in 1..Len(ops)
        BY <1>6
      <3>2. ops[i].id = ops[j].id \/ ops[i].album = ops[j].album
        BY <1>6, <2>2, <3>1
      <3> QED
        BY <1>8, <3>1, <3>2
    <2> QED
      BY <1>7, <2>1, <2>2 DEF Distinct
  <1>10. Owned(e, reqs)
    BY <1>1, <1>6, <1>7 DEF Owned, ops
  <1>11. Locked(e)
    <2>1. \A i \in 1..Len(q) : q[i].pending => q[i].id = head.id
      <3> TAKE i \in 1..Len(q)
      <3> HAVE q[i].pending
      <3>1. CASE i = 1
        BY <1>3, <1>6, <3>1
      <3>2. CASE i # 1
        <4>1. i \in 1..Len(ops) /\ ops[i].pending
          BY <1>6, <3>2
        <4>2. ops[i].id = None
          BY <1>1, <1>3, <4>1 DEF Locked, ops
        <4>3. ops[i].id \in Ids
          BY <1>2, <4>1, OperationFields
        <4> QED
          BY <4>2, <4>3, IdsApart
      <3> QED
        BY <3>1, <3>2
    <2> QED
      BY <1>5, <1>7, <2>1 DEF Locked
  <1>12. Posting(e, reqs, top)
    <2>1. head.id <= top
      BY <1>1, <1>3 DEF Distinct, ops
    <2>2. ASSUME NEW i \in 1..Len(q)
          PROVE  /\ q[i].id = head.id => q[i].album = head.album
                 /\ q[i].id \in RequestIds => q[i].album # head.album
      <3>1. i \in 1..Len(ops) /\ q[i].id = ops[i].id /\ q[i].album = ops[i].album
        BY <1>6
      <3>2. ops[i].id = head.id \/ ops[i].album = head.album => i = 1
        BY <1>3, <1>8, <3>1
      <3>3. head.id \notin RequestIds
        BY <1>4, IdsApart
      <3> QED
        BY <3>1, <3>2, <3>3
    <2> QED
      BY <1>5, <1>7, <2>1, <2>2 DEF Posting
  <1>13. Kept(d, e)
    BY <1>6, <1>7 DEF Kept, ops
  <1>14. Sent(d, e, reqs) /\ Carried(e, reqs)
    <2>1. Sent(d, e, reqs)
      BY <1>3, <1>4, <1>5, <1>7 DEF Sent, ops
    <2>2. 1 \in 1..Len(q) /\ q[1].id = p.id /\ q[1].request \notin Latest(reqs)
      BY <1>3, <1>4, <1>5, <1>6
    <2> QED
      BY <1>7, <2>1, <2>2 DEF Carried
  <1> QED
    BY <1>7, <1>9, <1>10, <1>11, <1>12, <1>13, <1>14 DEF Works, Sane, Carries

LEMMA DispatchWorks ==
    ASSUME NEW reqs, NEW top, NEW d, Sane(d, reqs, top), NEW starts \in Outcomes, NEW e,
           e = Dispatch(d, starts)
    PROVE  Works(d, e, reqs, top) /\ Carries(d, e, reqs) /\ e.shadows = d.shadows
  <1>1. CASE ~CanDispatch(d) \/ starts = "busy"
    BY <1>1, WorksItself DEF Dispatch, Carries
  <1>2. CASE CanDispatch(d) /\ starts = "taken"
    <2>1. HeadSent(d, e)
      BY <1>2 DEF Dispatch, HeadSent
    <2> QED
      BY <1>2, <2>1, SendSane
  <1>3. CASE CanDispatch(d) /\ starts = "refused"
    <2> DEFINE ops == d.operations
               all == 1..Len(ops)
               dropped == {i \in all : \A j \in 1..i : ~ops[j].dispatched}
               lost == {ops[i].album : i \in dropped}
               c == [d EXCEPT !.operations = Only(d, all \ dropped),
                              !.downloaded = @ \ lost, !.failed = @ \cup lost]
    <2>1. e = Rebuild(c)
      BY <1>3 DEF Dispatch
    <2>2. d.downloaded \ lost \in SUBSET Albums /\ d.failed \cup lost \in SUBSET Albums
      <3>1. d \in Owners
        BY SaneParts
      <3>2. \A i \in all : ops[i] \in Operations
        BY <3>1, OwnerFields
      <3>3. \A i \in all : ops[i].album \in Albums
        BY <3>2, OperationFields
      <3> QED
        BY <3>1, <3>3 DEF Owners
    <2> HIDE DEF lost, dropped, all
    <2>3. /\ Sane(c, reqs, top) /\ Kept(d, c) /\ c.exchange = d.exchange
          /\ c.shadows = d.shadows
      <3> DEFINE S == all \ dropped
      <3>1. Restricted(d, c, S)
        <4> DEFINE down == d.downloaded \ lost
                   fail == d.failed \cup lost
        <4>1. c = [d EXCEPT !.operations = Only(d, S), !.downloaded = down, !.failed = fail]
          OBVIOUS
        <4>2. down \in SUBSET Albums /\ fail \in SUBSET Albums
          BY <2>2
        <4> HIDE DEF c, down, fail, S
        <4> QED
          BY <4>1, <4>2 DEF Restricted
      <3> HIDE DEF c, S
      <3>2. Sane(c, reqs, top) /\ Kept(d, c) /\ Picked(d, c, S)
        BY <3>1, OnlySane
      <3> QED
        BY <3>2 DEF Picked
    <2> HIDE DEF c
    <2>4. /\ Sane(e, reqs, top) /\ Kept(c, e) /\ e.exchange = c.exchange
          /\ e.shadows = c.shadows
      BY <2>1, <2>3, RebuildSane
    <2>5. Kept(d, e)
      BY <2>3, <2>4, KeptTwice
    <2>6. e.exchange = d.exchange /\ e.shadows = d.shadows /\ d.exchange = None
      BY <1>3, <2>3, <2>4 DEF CanDispatch
    <2>7. Carried(e, reqs)
      BY <2>6 DEF Carried, IsPost
    <2> QED
      BY <2>4, <2>5, <2>6, <2>7 DEF Works, Sent, Carries
  <1> QED
    BY <1>1, <1>2, <1>3 DEF Outcomes

-----------------------------------------------------------------------------
(* Ending an attempt.                                                      *)

\* The attempts and what is in flight stay as they are.
Noted(d, e) ==
    \E down, fail \in SUBSET Albums, shad \in SUBSET RequestIds :
        e = [d EXCEPT !.shadows = shad, !.downloaded = down, !.failed = fail]

LEMMA NotedWorks ==
    ASSUME NEW reqs, NEW top, NEW d, Sane(d, reqs, top), NEW e, Noted(d, e)
    PROVE  /\ Works(d, e, reqs, top) /\ Carries(d, e, reqs)
           /\ e.operations = d.operations /\ e.exchange = d.exchange
  <1>0. PICK down \in SUBSET Albums, fail \in SUBSET Albums, shad \in SUBSET RequestIds :
           e = [d EXCEPT !.shadows = shad, !.downloaded = down, !.failed = fail]
    BY DEF Noted
  <1>1. d \in Owners
    BY SaneParts
  <1>2. /\ e \in Owners /\ e.operations = d.operations /\ e.exchange = d.exchange
        /\ e.inflight = d.inflight
    BY <1>0, <1>1 DEF Owners
  <1>3. Sane(e, reqs, top)
    BY <1>2 DEF Sane, Distinct, Owned, Locked, Posting
  <1>4. Kept(d, e) /\ Sent(d, e, reqs) /\ Carries(d, e, reqs)
    BY <1>2 DEF Kept, Sent, Carries, Carried
  <1> QED
    BY <1>2, <1>3, <1>4 DEF Works

\* The POST in flight is not for an attempt of the album.
Spared(d, album) ==
    \A i \in 1..Len(d.operations) :
        d.operations[i].album = album =>
            ~(IsPost(d.exchange) /\ d.operations[i].id = d.exchange.id)

NoneLeft(e, album) == \A i \in 1..Len(e.operations) : e.operations[i].album # album

LEMMA NoneLeftKept ==
    ASSUME NEW album, NEW d, NEW e, NoneLeft(d, album), Kept(d, e)
    PROVE  NoneLeft(e, album)
  BY DEF NoneLeft, Kept

LEMMA OperationsTyped ==
    ASSUME NEW reqs, NEW top, NEW d, Sane(d, reqs, top)
    PROVE  \A i \in 1..Len(d.operations) :
              d.operations[i] \in Operations /\ d.operations[i].album \in Albums
  <1>1. d \in Owners
    BY SaneParts
  <1>2. \A i \in 1..Len(d.operations) : d.operations[i] \in Operations
    BY <1>1, OwnerFields
  <1> QED
    BY <1>2, OperationFields

LEMMA OnlyCarries ==
    ASSUME NEW reqs, NEW d, NEW S, NEW e, Picked(d, e, S), Kept(d, e),
           \A i \in 1..Len(d.operations) :
              i \in S \/ ~(IsPost(d.exchange) /\ d.operations[i].id = d.exchange.id)
    PROVE  Carries(d, e, reqs)
  <1> SUFFICES ASSUME Carried(d, reqs), IsPost(e.exchange)
               PROVE  \E n \in 1..Len(e.operations) :
                         /\ e.operations[n].id = e.exchange.id
                         /\ e.operations[n].request \notin Latest(reqs)
    BY DEF Carries, Carried
  <1>1. IsPost(d.exchange) /\ e.exchange = d.exchange
    BY DEF Picked
  <1>2. PICK i \in 1..Len(d.operations) : /\ d.operations[i].id = d.exchange.id
                                          /\ d.operations[i].request \notin Latest(reqs)
    BY <1>1 DEF Carried
  <1>3. PICK n \in 1..Len(e.operations) : e.operations[n] = d.operations[i]
    BY <1>1, <1>2 DEF Picked
  <1> QED
    BY <1>1, <1>2, <1>3

LEMMA WithoutWorks ==
    ASSUME NEW reqs, NEW top, NEW d, Sane(d, reqs, top), NEW album, NEW e,
           e = Without(d, album)
    PROVE  /\ Works(d, e, reqs, top) /\ NoneLeft(e, album)
           /\ e.exchange = d.exchange /\ e.shadows = d.shadows
           /\ Spared(d, album) => Carries(d, e, reqs)
  <1> DEFINE S == (1..Len(d.operations)) \ Places(d, album)
             c == [d EXCEPT !.operations = Only(d, S)]
  <1>1. d \in Owners
    BY SaneParts
  <1>2. Restricted(d, c, S)
    <2>1. c = [d EXCEPT !.operations = Only(d, S), !.downloaded = d.downloaded,
                        !.failed = d.failed]
      BY <1>1 DEF Owners
    <2>2. d.downloaded \in SUBSET Albums /\ d.failed \in SUBSET Albums
      BY <1>1 DEF Owners
    <2> HIDE DEF c, S
    <2> QED
      BY <2>1, <2>2 DEF Restricted
  <1>3. e = Rebuild(c)
    BY DEF Without
  <1>4. \A i \in 1..Len(d.operations) : i \in S <=> d.operations[i].album # album
    BY DEF Places
  <1> HIDE DEF c, S
  <1>5. Sane(c, reqs, top) /\ Kept(d, c) /\ Picked(d, c, S)
    BY <1>2, OnlySane
  <1>6. /\ Sane(e, reqs, top) /\ Kept(c, e) /\ Kept(e, c) /\ e.exchange = c.exchange
        /\ e.shadows = c.shadows
    BY <1>3, <1>5, RebuildSane
  <1>7. Kept(d, e)
    BY <1>5, <1>6, KeptTwice
  <1>8. e.exchange = d.exchange /\ e.shadows = d.shadows
    BY <1>5, <1>6 DEF Picked
  <1>9. NoneLeft(e, album)
    <2>1. NoneLeft(c, album)
      <3> SUFFICES ASSUME NEW n \in 1..Len(c.operations)
                   PROVE  c.operations[n].album # album
        BY DEF NoneLeft
      <3>1. PICK i \in S : /\ i \in 1..Len(d.operations)
                           /\ c.operations[n] = d.operations[i]
        BY <1>5 DEF Picked
      <3> QED
        BY <1>4, <3>1
    <2> QED
      BY <1>6, <2>1, NoneLeftKept
  <1>10. ASSUME Spared(d, album) PROVE Carries(d, e, reqs)
    <2>1. \A i \in 1..Len(d.operations) :
              i \in S \/ ~(IsPost(d.exchange) /\ d.operations[i].id = d.exchange.id)
      BY <1>4, <1>10 DEF Spared
    <2>2. Carries(d, c, reqs)
      BY <1>5, <2>1, OnlyCarries
    <2>3. Carried(c, reqs) => Carried(e, reqs)
      <3> SUFFICES ASSUME Carried(c, reqs), IsPost(e.exchange)
                   PROVE  \E n \in 1..Len(e.operations) :
                             /\ e.operations[n].id = e.exchange.id
                             /\ e.operations[n].request \notin Latest(reqs)
        BY DEF Carried
      <3>1. PICK i \in 1..Len(c.operations) :
               /\ c.operations[i].id = e.exchange.id
               /\ c.operations[i].request \notin Latest(reqs)
        BY <1>6 DEF Carried
      <3>2. PICK n \in 1..Len(e.operations) :
               /\ c.operations[i].id = e.operations[n].id
               /\ c.operations[i].request = e.operations[n].request
        BY <1>6 DEF Kept
      <3> QED
        BY <3>1, <3>2
    <2> QED
      BY <2>2, <2>3 DEF Carries
  <1> QED
    BY <1>6, <1>7, <1>8, <1>9, <1>10 DEF Works, Sent

\* An attempt of the album is ended, one way or the other.
Ended(d, e, album, starts) ==
    \E c : /\ Noted(Without(d, album), c)
           /\ e = IF IsHead(d, album) THEN Dispatch(c, starts) ELSE c

LEMMA EndedFrom ==
    ASSUME NEW reqs, NEW top, NEW d, NEW album, Sane(Without(d, album), reqs, top),
           NEW starts \in Outcomes, NEW e, Ended(d, e, album, starts)
    PROVE  Works(Without(d, album), e, reqs, top) /\ Carries(Without(d, album), e, reqs)
  <1> DEFINE b == Without(d, album)
  <1>1. PICK c : /\ Noted(b, c)
                 /\ e = IF IsHead(d, album) THEN Dispatch(c, starts) ELSE c
    BY DEF Ended
  <1> HIDE DEF b
  <1>2. Sane(b, reqs, top)
    BY DEF b
  <1>3. Works(b, c, reqs, top) /\ Carries(b, c, reqs)
    BY <1>1, <1>2, NotedWorks
  <1>4. Works(c, e, reqs, top) /\ Carries(c, e, reqs)
    <2>1. Sane(c, reqs, top)
      BY <1>3 DEF Works
    <2>2. CASE IsHead(d, album)
      <3>1. e = Dispatch(c, starts)
        BY <1>1, <2>2
      <3> QED
        BY <2>1, <3>1, DispatchWorks
    <2>3. CASE ~IsHead(d, album)
      <3>1. e = c
        BY <1>1, <2>3
      <3> QED
        BY <2>1, <3>1, WorksItself DEF Carries
    <2> QED
      BY <2>2, <2>3
  <1>5. Works(b, e, reqs, top) /\ Carries(b, e, reqs)
    BY <1>3, <1>4, WorksTwice DEF Carries
  <1> QED
    BY <1>5 DEF b

LEMMA EndedWorks ==
    ASSUME NEW reqs, NEW top, NEW d, Sane(d, reqs, top), NEW starts \in Outcomes,
           NEW album, NEW e, Ended(d, e, album, starts)
    PROVE  /\ Works(d, e, reqs, top) /\ NoneLeft(e, album)
           /\ Spared(d, album) => Carries(d, e, reqs)
  <1> DEFINE b == Without(d, album)
  <1>1. /\ Works(d, b, reqs, top) /\ NoneLeft(b, album)
        /\ Spared(d, album) => Carries(d, b, reqs)
    BY WithoutWorks
  <1>2. Works(b, e, reqs, top) /\ Carries(b, e, reqs)
    BY <1>1, EndedFrom DEF Works
  <1> HIDE DEF b
  <1>3. Works(d, e, reqs, top)
    BY <1>1, <1>2, WorksTwice
  <1>4. NoneLeft(e, album)
    <2>1. Kept(b, e)
      BY <1>2 DEF Works
    <2> QED
      BY <1>1, <2>1, NoneLeftKept
  <1> QED
    BY <1>1, <1>2, <1>3, <1>4 DEF Carries

LEMMA CompleteFailEnd ==
    ASSUME NEW d, NEW album \in Albums, Without(d, album) \in Owners,
           NEW starts \in Outcomes, NEW e,
           e = Complete(d, album, starts) \/ e = Fail(d, album, starts)
    PROVE  Ended(d, e, album, starts)
  <1> DEFINE b == Without(d, album)
  <1>2. b \in Owners
    OBVIOUS
  <1>3. ASSUME NEW down \in SUBSET Albums, NEW fail \in SUBSET Albums, NEW c,
               c = [b EXCEPT !.downloaded = down, !.failed = fail]
        PROVE  Noted(b, c)
    <2>1. c = [b EXCEPT !.shadows = b.shadows, !.downloaded = down, !.failed = fail]
      BY <1>2, <1>3 DEF Owners
    <2>2. b.shadows \in SUBSET RequestIds
      BY <1>2 DEF Owners
    <2> HIDE DEF b
    <2> QED
      BY <2>1, <2>2 DEF Noted
  <1>4. b.downloaded \in SUBSET Albums /\ b.failed \in SUBSET Albums
    BY <1>2 DEF Owners
  <1>5. CASE e = Complete(d, album, starts)
    <2> DEFINE c == [b EXCEPT !.downloaded = @ \cup {album}, !.failed = @ \ {album}]
    <2>1. Noted(b, c)
      <3> DEFINE down == b.downloaded \cup {album}
                 fail == b.failed \ {album}
      <3>1. c = [b EXCEPT !.downloaded = down, !.failed = fail]
        OBVIOUS
      <3>2. down \in SUBSET Albums /\ fail \in SUBSET Albums
        BY <1>4
      <3> HIDE DEF c, b, down, fail
      <3> QED
        BY <1>3, <3>1, <3>2
    <2>2. e = IF IsHead(d, album) THEN Dispatch(c, starts) ELSE c
      BY <1>5 DEF Complete
    <2> HIDE DEF c
    <2> QED
      BY <2>1, <2>2 DEF Ended
  <1>6. CASE e = Fail(d, album, starts)
    <2> DEFINE c == [b EXCEPT !.downloaded = @ \ {album}, !.failed = @ \cup {album}]
    <2>1. Noted(b, c)
      <3> DEFINE down == b.downloaded \ {album}
                 fail == b.failed \cup {album}
      <3>1. c = [b EXCEPT !.downloaded = down, !.failed = fail]
        OBVIOUS
      <3>2. down \in SUBSET Albums /\ fail \in SUBSET Albums
        BY <1>4
      <3> HIDE DEF c, b, down, fail
      <3> QED
        BY <1>3, <3>1, <3>2
    <2>2. e = IF IsHead(d, album) THEN Dispatch(c, starts) ELSE c
      BY <1>6 DEF Fail
    <2> HIDE DEF c
    <2> QED
      BY <2>1, <2>2 DEF Ended
  <1> QED
    BY <1>5, <1>6

LEMMA CompleteFailWorks ==
    ASSUME NEW reqs, NEW top, NEW d, Sane(d, reqs, top), NEW starts \in Outcomes,
           NEW album \in Albums, NEW e,
           e = Complete(d, album, starts) \/ e = Fail(d, album, starts)
    PROVE  /\ Works(d, e, reqs, top) /\ NoneLeft(e, album)
           /\ Spared(d, album) => Carries(d, e, reqs)
  <1>1. Without(d, album) \in Owners
    BY WithoutWorks DEF Works, Sane
  <1>2. Ended(d, e, album, starts)
    BY <1>1, CompleteFailEnd
  <1> QED
    BY <1>2, EndedWorks

-----------------------------------------------------------------------------
(* Ending an attempt by its name, and the attempts of requests that ended.  *)

LEMMA GoneKept ==
    ASSUME NEW ref, NEW d, NEW e, AttemptPlaces(d, ref) = {}, Kept(d, e)
    PROVE  AttemptPlaces(e, ref) = {}
  <1> SUFFICES ASSUME NEW j \in 1..Len(e.operations),
                      e.operations[j].id = ref \/ e.operations[j].request = ref
               PROVE  FALSE
    BY DEF AttemptPlaces
  <1>1. PICK i \in 1..Len(d.operations) :
           /\ e.operations[j].id = d.operations[i].id
           /\ e.operations[j].request = d.operations[i].request
    BY DEF Kept
  <1>2. i \in AttemptPlaces(d, ref)
    BY <1>1 DEF AttemptPlaces
  <1> QED
    BY <1>2

LEMMA PostName ==
    ASSUME NEW reqs, NEW top, NEW d, Sane(d, reqs, top), IsPost(d.exchange)
    PROVE  /\ d.exchange.id \in AttemptIds /\ d.exchange.album \in Albums
           /\ d.exchange.answer \in Answers \cup {None}
  <1>1. d.exchange \in Exchanges
    BY SaneParts, OwnerFields DEF IsPost
  <1> QED
    BY <1>1 DEF IsPost, Exchanges

\* The attempts that go by the name of a request are for its album.
LEMMA NamedAlbum ==
    ASSUME NEW reqs, NEW top, NEW d, Sane(d, reqs, top), NEW ref \in RequestIds,
           NEW i \in AttemptPlaces(d, ref)
    PROVE  /\ i \in 1..Len(d.operations) /\ d.operations[i].request = ref
           /\ d.operations[i].album = reqs[ref].album
  <1>1. i \in 1..Len(d.operations) /\ (d.operations[i].id = ref \/ d.operations[i].request = ref)
    BY DEF AttemptPlaces
  <1>2. Owned(d, reqs) /\ ref # None
    BY SaneParts, IdsApart DEF Ids
  <1>3. d.operations[i].request = ref
    BY <1>1, <1>2 DEF Owned
  <1> QED
    BY <1>1, <1>2, <1>3 DEF Owned

LEMMA EndAttemptWorks ==
    ASSUME NEW reqs, NEW top, NEW d, Sane(d, reqs, top), NEW starts \in Outcomes,
           NEW completed \in BOOLEAN, NEW ref, NEW e,
           e = EndAttempt(d, ref, completed, starts)
    PROVE  /\ Works(d, e, reqs, top)
           /\ ref \in RequestIds => AttemptPlaces(e, ref) = {}
           /\ ref \in RequestIds \cap Latest(reqs) => Carries(d, e, reqs)
  <1>1. CASE AttemptPlaces(d, ref) # {}
    <2> DEFINE place == CHOOSE i \in AttemptPlaces(d, ref) : TRUE
               album == d.operations[place].album
    <2>1. place \in AttemptPlaces(d, ref)
      BY <1>1
    <2>2. e = IF completed THEN Complete(d, album, starts) ELSE Fail(d, album, starts)
      BY <1>1 DEF EndAttempt
    <2> HIDE DEF place
    <2>3. place \in 1..Len(d.operations) /\ album \in Albums
      <3>1. place \in 1..Len(d.operations)
        BY <2>1 DEF AttemptPlaces
      <3> QED
        BY <3>1, OperationsTyped
    <2> HIDE DEF album
    <2>4. e = Complete(d, album, starts) \/ e = Fail(d, album, starts)
      BY <2>2
    <2>5. /\ Works(d, e, reqs, top) /\ NoneLeft(e, album)
          /\ Spared(d, album) => Carries(d, e, reqs)
      BY <2>3, <2>4, CompleteFailWorks
    <2>6. ASSUME ref \in RequestIds PROVE AttemptPlaces(e, ref) = {}
      <3> SUFFICES ASSUME NEW j \in AttemptPlaces(e, ref) PROVE FALSE
        OBVIOUS
      <3>1. Sane(e, reqs, top)
        BY <2>5 DEF Works
      <3>2. j \in 1..Len(e.operations) /\ e.operations[j].album = reqs[ref].album
        BY <2>6, <3>1, NamedAlbum
      <3>3. album = reqs[ref].album
        BY <2>1, <2>6, NamedAlbum DEF album
      <3> QED
        BY <2>5, <3>2, <3>3 DEF NoneLeft
    <2>7. ASSUME ref \in RequestIds, ref \in Latest(reqs) PROVE Carries(d, e, reqs)
      <3> SUFFICES ASSUME Carried(d, reqs) PROVE Carries(d, e, reqs)
        BY DEF Carries
      <3>1. Spared(d, album)
        <4> SUFFICES ASSUME NEW i \in 1..Len(d.operations), d.operations[i].album = album,
                            IsPost(d.exchange), d.operations[i].id = d.exchange.id
                     PROVE  FALSE
          BY DEF Spared
        <4>1. PICK k \in 1..Len(d.operations) :
                 /\ d.operations[k].id = d.exchange.id
                 /\ d.operations[k].request \notin Latest(reqs)
          BY DEF Carried
        <4>2. Distinct(d, top)
          BY SaneParts
        <4>3. k = i /\ i = place
          BY <2>3, <4>1, <4>2 DEF Distinct, album
        <4>4. d.operations[place].request = ref
          BY <2>1, <2>7, NamedAlbum
        <4> QED
          BY <2>7, <4>1, <4>3, <4>4
      <3> QED
        BY <2>5, <3>1
    <2> QED
      BY <2>5, <2>6, <2>7
  <1>2. CASE AttemptPlaces(d, ref) = {}
    <2>1. Works(d, e, reqs, top) /\ Carries(d, e, reqs)
      <3>1. CASE ref \in d.shadows
        <4> DEFINE c == [d EXCEPT !.shadows = @ \ {ref}]
        <4>1. e = Dispatch(c, starts)
          BY <1>2, <3>1 DEF EndAttempt
        <4>2. Noted(d, c)
          <5> DEFINE shad == d.shadows \ {ref}
          <5>1. d \in Owners
            BY SaneParts
          <5>2. /\ shad \in SUBSET RequestIds /\ d.downloaded \in SUBSET Albums
                /\ d.failed \in SUBSET Albums
            BY <5>1, OwnerFields
          <5>3. c = [d EXCEPT !.shadows = shad, !.downloaded = d.downloaded,
                              !.failed = d.failed]
            BY <5>1 DEF Owners
          <5> HIDE DEF c, shad
          <5> QED
            BY <5>2, <5>3 DEF Noted
        <4> HIDE DEF c
        <4>3. Works(d, c, reqs, top) /\ Carries(d, c, reqs)
          BY <4>2, NotedWorks
        <4>4. Works(c, e, reqs, top) /\ Carries(c, e, reqs)
          BY <4>1, <4>3, DispatchWorks DEF Works
        <4> QED
          BY <4>3, <4>4, WorksTwice DEF Carries
      <3>2. CASE ref \notin d.shadows
        <4>1. e = d
          BY <1>2, <3>2 DEF EndAttempt
        <4> QED
          BY <4>1, WorksItself DEF Carries
      <3> QED
        BY <3>1, <3>2
    <2>2. AttemptPlaces(e, ref) = {}
      BY <1>2, <2>1, GoneKept DEF Works
    <2> QED
      BY <2>1, <2>2
  <1> QED
    BY <1>1, <1>2

\* A list that has been served is of the requests there are.
Lists(seen, reqs) ==
    /\ seen \in Seq(Requests) /\ Len(seen) = Len(reqs) /\ Len(seen) \in 0..MaxRequests
    /\ \A r \in 1..Len(seen) : seen[r].album = reqs[r].album

LEMMA SameLatest ==
    ASSUME NEW seen, NEW reqs, Lists(seen, reqs)
    PROVE  /\ Latest(seen) = Latest(reqs)
           /\ Latest(seen) \subseteq RequestIds /\ Latest(seen) \subseteq 1..Len(seen)
  <1>1. 1..Len(seen) \subseteq RequestIds
    BY DownloadAssumption DEF Lists, RequestIds
  <1> QED
    BY <1>1 DEF Latest, Lists

EndsUp(d, seen, starts, f) ==
    f = [r \in 0..Len(seen) |->
            IF r = 0 THEN d
            ELSE IF r \in Latest(seen) THEN EndRequest(f[r - 1], r, seen, starts)
            ELSE f[r - 1]]

LEMMA EndRequestsRuns ==
    \A d, seen, starts : (\E f : EndsUp(d, seen, starts, f))
        => \E f : EndsUp(d, seen, starts, f) /\ EndRequests(d, seen, starts) = f[Len(seen)]
  BY DEF EndRequests, EndsUp

IsOver(r, seen) == r \in Latest(seen) /\ seen[r].state \notin Active

LEMMA EndRequestWorks ==
    ASSUME NEW reqs, NEW top, NEW d, Sane(d, reqs, top), NEW starts \in Outcomes,
           NEW seen, Lists(seen, reqs), NEW r \in Latest(seen), NEW e,
           e = EndRequest(d, r, seen, starts)
    PROVE  /\ Works(d, e, reqs, top) /\ Carries(d, e, reqs)
           /\ IsOver(r, seen) => AttemptPlaces(e, r) = {}
  <1>1. r \in RequestIds /\ r \in Latest(reqs) /\ r \in 1..Len(seen)
    BY SameLatest
  <1>2. seen[r] \in Requests
    <2>1. seen \in Seq(Requests)
      BY DEF Lists
    <2> QED
      BY <1>1, <2>1, ElementOfSeq
  <1>3. seen[r].state \in Active \cup {"downloaded", "failed"}
    BY <1>2 DEF Requests
  <1>4. CASE seen[r].state = "downloaded"
    <2>1. e = EndAttempt(d, r, TRUE, starts)
      BY <1>4 DEF EndRequest, CompleteAttempt
    <2> QED
      BY <1>1, <2>1, EndAttemptWorks
  <1>5. CASE seen[r].state = "failed"
    <2>1. e = EndAttempt(d, r, FALSE, starts)
      BY <1>5 DEF EndRequest, FailAttempt
    <2> QED
      BY <1>1, <2>1, EndAttemptWorks
  <1>6. CASE seen[r].state \notin {"downloaded", "failed"}
    <2>1. e = d /\ seen[r].state \in Active
      BY <1>3, <1>6 DEF EndRequest
    <2> QED
      BY <2>1, WorksItself DEF Carries, IsOver
  <1> QED
    BY <1>4, <1>5, <1>6

-----------------------------------------------------------------------------
(* All the requests that have ended.                                       *)

LEMMA EndRequestsWorks ==
    ASSUME NEW reqs, NEW top, NEW d, Sane(d, reqs, top), NEW starts \in Outcomes,
           NEW seen, Lists(seen, reqs), NEW e, e = EndRequests(d, seen, starts)
    PROVE  /\ Works(d, e, reqs, top) /\ Carries(d, e, reqs)
           /\ \A r \in 1..Len(seen) : IsOver(r, seen) => AttemptPlaces(e, r) = {}
  <1> DEFINE N == Len(seen)
             D == {x \in Owners : Sane(x, reqs, top)}
             step == [r \in 1..N |-> [x \in D |->
                         IF r \in Latest(seen) THEN EndRequest(x, r, seen, starts) ELSE x]]
  <1>0. N \in Nat /\ d \in D
    <2>1. N \in Nat
      BY DownloadAssumption DEF Lists
    <2> QED
      BY <2>1 DEF Sane
  <1>1. ASSUME NEW r \in 1..N, NEW x \in D, r \in Latest(seen), NEW y,
               y = EndRequest(x, r, seen, starts)
        PROVE  /\ y \in D /\ Works(x, y, reqs, top) /\ Carries(x, y, reqs)
               /\ IsOver(r, seen) => AttemptPlaces(y, r) = {}
    <2>1. /\ Works(x, y, reqs, top) /\ Carries(x, y, reqs)
          /\ IsOver(r, seen) => AttemptPlaces(y, r) = {}
      BY <1>1, EndRequestWorks
    <2>2. Sane(y, reqs, top) /\ y \in Owners
      BY <2>1 DEF Works, Sane
    <2> QED
      BY <2>1, <2>2
  <1>2. step \in [1..N -> [D -> D]]
    <2> SUFFICES ASSUME NEW r \in 1..N, NEW x \in D, r \in Latest(seen)
                 PROVE  EndRequest(x, r, seen, starts) \in D
      OBVIOUS
    <2> HIDE DEF D, N
    <2> QED
      BY <1>1
  <1>3. \A r \in 1..N : \A x \in D :
            step[r][x] = IF r \in Latest(seen) THEN EndRequest(x, r, seen, starts) ELSE x
    OBVIOUS
  <1> HIDE DEF step, D, N
  <1>4. PICK g \in [0..N -> D] : g[0] = d /\ \A r \in 1..N : g[r] = step[r][g[r - 1]]
    <2>1. Stepping(N, D, step)
      BY <1>2 DEF Stepping
    <2>2. PICK g : Folds(N, D, d, step, g)
      BY <1>0, <2>1, FoldExists
    <2> QED
      BY <2>2 DEF Folds
  <1>5. EndsUp(d, seen, starts, g)
    <2>1. \A r \in 0..N : g[r] = IF r = 0 THEN d
              ELSE IF r \in Latest(seen) THEN EndRequest(g[r - 1], r, seen, starts)
              ELSE g[r - 1]
      <3> TAKE r \in 0..N
      <3>1. CASE r = 0
        BY <1>4, <3>1
      <3>2. CASE r # 0
        <4>1. r \in 1..N /\ r - 1 \in 0..N /\ g[r - 1] \in D
          BY <1>0, <1>4, <3>2
        <4>2. g[r] = step[r][g[r - 1]]
          BY <1>4, <4>1
        <4> QED
          BY <1>3, <3>2, <4>1, <4>2
      <3> QED
        BY <3>1, <3>2
    <2> QED
      BY <1>4, <2>1 DEF EndsUp, N
  <1>6. PICK f : EndsUp(d, seen, starts, f) /\ e = f[N]
    BY <1>5, EndRequestsRuns DEF N
  <1>7. \A r \in 0..N : f[r] = IF r = 0 THEN d
            ELSE IF r \in Latest(seen) THEN EndRequest(f[r - 1], r, seen, starts)
            ELSE f[r - 1]
    <2> DEFINE body == [r \in 0..N |-> IF r = 0 THEN d
            ELSE IF r \in Latest(seen) THEN EndRequest(f[r - 1], r, seen, starts)
            ELSE f[r - 1]]
    <2>1. f = body
      BY <1>6 DEF EndsUp, N
    <2>2. \A r \in 0..N : body[r] = IF r = 0 THEN d
            ELSE IF r \in Latest(seen) THEN EndRequest(f[r - 1], r, seen, starts)
            ELSE f[r - 1]
      OBVIOUS
    <2> HIDE DEF body
    <2> QED
      BY <2>1, <2>2
  <1> DEFINE Fine(r) == /\ Works(d, f[r], reqs, top) /\ Carries(d, f[r], reqs)
                        /\ \A s \in 1..r : IsOver(s, seen) => AttemptPlaces(f[r], s) = {}
             Good == {r \in 0..N : Fine(r)}
  <1>8. 0 \in Good
    <2>1. f[0] = d /\ 0 \in 0..N
      BY <1>0, <1>7
    <2>2. Works(d, d, reqs, top) /\ Carries(d, d, reqs)
      BY WorksItself DEF Carries
    <2> QED
      BY <2>1, <2>2
  <1>9. ASSUME NEW r \in 1..N, r - 1 \in Good PROVE r \in Good
    <2>1. r \in 0..N /\ r # 0 /\ Fine(r - 1)
      BY <1>0, <1>9
    <2> DEFINE x == f[r - 1]
               y == f[r]
    <2>2. Works(d, x, reqs, top) /\ Carries(d, x, reqs)
          /\ \A s \in 1..(r - 1) : IsOver(s, seen) => AttemptPlaces(x, s) = {}
      BY <2>1
    <2>3. y = IF r \in Latest(seen) THEN EndRequest(x, r, seen, starts) ELSE x
      BY <1>7, <2>1
    <2> HIDE DEF x
    <2>4. Sane(x, reqs, top) /\ x \in D
      BY <2>2 DEF Works, Sane, D
    <2> HIDE DEF y
    <2>5. /\ Works(x, y, reqs, top) /\ Carries(x, y, reqs)
          /\ IsOver(r, seen) => AttemptPlaces(y, r) = {}
      <3>1. CASE r \in Latest(seen)
        BY <1>1, <2>3, <2>4, <3>1
      <3>2. CASE r \notin Latest(seen)
        <4>1. y = x
          BY <2>3, <3>2
        <4> QED
          BY <2>4, <3>2, <4>1, WorksItself DEF Carries, IsOver
      <3> QED
        BY <3>1, <3>2
    <2>6. Works(d, y, reqs, top) /\ Carries(d, y, reqs)
      BY <2>2, <2>5, WorksTwice DEF Carries
    <2>7. \A s \in 1..r : IsOver(s, seen) => AttemptPlaces(y, s) = {}
      <3> SUFFICES ASSUME NEW s \in 1..r, IsOver(s, seen) PROVE AttemptPlaces(y, s) = {}
        OBVIOUS
      <3>1. CASE s = r
        BY <2>5, <3>1
      <3>2. CASE s # r
        <4>1. s \in 1..(r - 1)
          BY <1>0, <3>2
        <4>2. AttemptPlaces(x, s) = {} /\ Kept(x, y)
          BY <2>2, <2>5, <4>1 DEF Works
        <4> QED
          BY <4>2, GoneKept
      <3> QED
        BY <3>1, <3>2
    <2> QED
      BY <2>1, <2>6, <2>7 DEF y
  <1>10. N \in Good
    <2>1. Good \in SUBSET (0..N)
      OBVIOUS
    <2> HIDE DEF Good
    <2> QED
      BY <1>0, <1>8, <1>9, <2>1, FoldKeeps
  <1>11. Fine(N)
    BY <1>10
  <1> QED
    BY <1>6, <1>11 DEF N

-----------------------------------------------------------------------------
(* Looking albums up.                                                      *)

LEMMA ReconcileWorks ==
    ASSUME NEW reqs, NEW top, NEW d, Sane(d, reqs, top), NEW starts \in Outcomes,
           NEW some \in SUBSET Albums, NEW have, NEW loading, NEW waiting, NEW e,
           e = Reconcile(d, some, have, loading, waiting, starts)
    PROVE  Works(d, e, reqs, top) /\ (d.exchange = None => Carried(e, reqs))
  <1> DEFINE whole == {k \in some : have[k] = "all"}
             kept == {i \in 1..Len(d.operations) : d.operations[i].album \notin whole}
             c == [d EXCEPT !.operations = Only(d, kept)]
             f == IF kept = 1..Len(d.operations) THEN d ELSE Rebuild(c)
             stays == {k \in some : Shown(f, k, have, loading, waiting) = "downloaded"}
             g == [f EXCEPT !.downloaded = (@ \ some) \cup stays, !.failed = @ \ stays]
  <1>1. e = IF \E k \in whole : IsHead(d, k) THEN Dispatch(g, starts) ELSE g
    BY DEF Reconcile
  <1>2. stays \in SUBSET Albums
    OBVIOUS
  <1> HIDE DEF whole, stays
  <1>3. Works(d, f, reqs, top) /\ f.exchange = d.exchange
    <2>1. CASE kept = 1..Len(d.operations)
      <3>1. f = d
        BY <2>1
      <3> QED
        BY <3>1, WorksItself
    <2>2. CASE kept # 1..Len(d.operations)
      <3>1. f = Rebuild(c)
        BY <2>2
      <3>2. Restricted(d, c, kept)
        <4>1. d \in Owners
          BY SaneParts
        <4>2. c = [d EXCEPT !.operations = Only(d, kept), !.downloaded = d.downloaded,
                            !.failed = d.failed]
          BY <4>1 DEF Owners
        <4>3. d.downloaded \in SUBSET Albums /\ d.failed \in SUBSET Albums
          BY <4>1 DEF Owners
        <4> HIDE DEF c, kept
        <4> QED
          BY <4>2, <4>3 DEF Restricted
      <3> HIDE DEF c, f, kept
      <3>3. Sane(c, reqs, top) /\ Kept(d, c) /\ Picked(d, c, kept)
        BY <3>2, OnlySane
      <3>4. Sane(f, reqs, top) /\ Kept(c, f) /\ f.exchange = c.exchange
        BY <3>1, <3>3, RebuildSane
      <3>5. Kept(d, f) /\ f.exchange = d.exchange
        BY <3>3, <3>4, KeptTwice DEF Picked
      <3> QED
        BY <3>4, <3>5 DEF Works, Sent
    <2> QED
      BY <2>1, <2>2
  <1> HIDE DEF f
  <1>4. f \in Owners /\ Sane(f, reqs, top)
    BY <1>3 DEF Works, Sane
  <1>5. Noted(f, g)
    <2> DEFINE down == (f.downloaded \ some) \cup stays
               fail == f.failed \ stays
    <2>1. g = [f EXCEPT !.shadows = f.shadows, !.downloaded = down, !.failed = fail]
      BY <1>4 DEF Owners
    <2>2. /\ down \in SUBSET Albums /\ fail \in SUBSET Albums
          /\ f.shadows \in SUBSET RequestIds
      BY <1>2, <1>4 DEF Owners
    <2> HIDE DEF g, down, fail
    <2> QED
      BY <2>1, <2>2 DEF Noted
  <1> HIDE DEF g
  <1>6. Works(f, g, reqs, top) /\ g.exchange = f.exchange
    BY <1>4, <1>5, NotedWorks
  <1>7. Works(g, e, reqs, top) /\ Carries(g, e, reqs)
    <2>1. Sane(g, reqs, top)
      BY <1>6 DEF Works
    <2>2. e = Dispatch(g, starts) \/ e = g
      BY <1>1
    <2> QED
      BY <2>1, <2>2, DispatchWorks, WorksItself DEF Carries
  <1>8. Works(d, g, reqs, top) /\ g.exchange = d.exchange
    BY <1>3, <1>6, WorksTwice
  <1>9. Works(d, e, reqs, top)
    BY <1>7, <1>8, WorksTwice
  <1>10. ASSUME d.exchange = None PROVE Carried(e, reqs)
    BY <1>7, <1>8, <1>10 DEF Carries, Carried, IsPost
  <1> QED
    BY <1>9, <1>10

-----------------------------------------------------------------------------
(* The active requests.                                                    *)

Actives(seen) == {r \in Latest(seen) : seen[r].state \in Active}

LEMMA Halves ==
    \A a, b, c \in Nat : c = a + b =>
        /\ \A i \in 1..a : i \in 1..c /\ i <= a
        /\ \A i \in 1..b : a + i \in 1..c /\ ~(a + i <= a) /\ (a + i) - a = i
        /\ \A i \in 1..c : (i <= a <=> i \in 1..a) /\ (~(i <= a) => i - a \in 1..b)
  OBVIOUS

\* The places of two sequences in a row.
Follows(u, s, t) ==
    /\ Len(u) \in Nat /\ Len(s) \in Nat /\ Len(t) \in Nat /\ Len(u) = Len(s) + Len(t)
    /\ \A i \in 1..Len(s) : i \in 1..Len(u) /\ u[i] = s[i]
    /\ \A i \in 1..Len(t) : Len(s) + i \in 1..Len(u) /\ u[Len(s) + i] = t[i]
    /\ \A i \in 1..Len(u) : i \notin 1..Len(s) =>
          i - Len(s) \in 1..Len(t) /\ u[i] = t[i - Len(s)]

LEMMA ConcatFollows ==
    ASSUME NEW S, NEW s \in Seq(S), NEW t \in Seq(S)
    PROVE  s \o t \in Seq(S) /\ Follows(s \o t, s, t)
  <1> DEFINE u == s \o t
  <1>1. Len(s) \in Nat /\ Len(t) \in Nat
    BY LenProperties
  <1>2. u \in Seq(S) /\ Len(u) = Len(s) + Len(t)
    BY ConcatProperties
  <1>3. \A i \in 1..Len(s) + Len(t) : u[i] = IF i <= Len(s) THEN s[i] ELSE t[i - Len(s)]
    BY ConcatProperties
  <1> HIDE DEF u
  <1>4. Len(u) \in Nat
    BY <1>2, LenProperties
  <1>5. /\ \A i \in 1..Len(s) : i \in 1..Len(u) /\ i <= Len(s)
        /\ \A i \in 1..Len(t) : /\ Len(s) + i \in 1..Len(u) /\ ~(Len(s) + i <= Len(s))
                                /\ (Len(s) + i) - Len(s) = i
        /\ \A i \in 1..Len(u) : /\ i <= Len(s) <=> i \in 1..Len(s)
                                /\ ~(i <= Len(s)) => i - Len(s) \in 1..Len(t)
    BY <1>1, <1>2, <1>4, Halves, Zenon
  <1>6. \A i \in 1..Len(u) : u[i] = IF i <= Len(s) THEN s[i] ELSE t[i - Len(s)]
    BY <1>2, <1>3
  <1>7. ASSUME NEW i \in 1..Len(s) PROVE u[i] = s[i]
    BY <1>5, <1>6, Zenon
  <1>8. ASSUME NEW i \in 1..Len(t) PROVE u[Len(s) + i] = t[i]
    <2> DEFINE k == Len(s) + i
    <2>1. k \in 1..Len(u) /\ ~(k <= Len(s)) /\ k - Len(s) = i
      BY <1>5, Zenon
    <2> HIDE DEF k
    <2>2. u[k] = t[k - Len(s)]
      BY <1>6, <2>1, Zenon
    <2> QED
      BY <2>1, <2>2 DEF k
  <1>9. ASSUME NEW i \in 1..Len(u), i \notin 1..Len(s)
        PROVE  i - Len(s) \in 1..Len(t) /\ u[i] = t[i - Len(s)]
    BY <1>5, <1>6, <1>9, Zenon
  <1>10. Follows(u, s, t)
    BY <1>1, <1>2, <1>4, <1>5, <1>7, <1>8, <1>9, Zenon DEF Follows
  <1> QED
    BY <1>2, <1>10 DEF u

\* Two sequences with nothing in common, in a row.
LEMMA OnceBoth ==
    \A S, T, s, t : OnceEach(s, S) /\ OnceEach(t, T) /\ S \cap T = {}
        => OnceEach(s \o t, S \cup T)
  <1> SUFFICES ASSUME NEW S, NEW T, NEW s, NEW t, OnceEach(s, S), OnceEach(t, T),
                      S \cap T = {}
               PROVE  OnceEach(s \o t, S \cup T)
    OBVIOUS
  <1> DEFINE A == S \cup T
             u == s \o t
  <1>1. /\ s \in Seq(A) /\ t \in Seq(A) /\ Len(s) \in Nat /\ Len(t) \in Nat
    <2>1. s \in Seq(S) /\ t \in Seq(T) /\ Len(s) \in Nat /\ Len(t) \in Nat
      BY DEF OnceEach
    <2> QED
      BY <2>1, SeqMonotonic
  <1>2. u \in Seq(A) /\ Follows(u, s, t)
    BY <1>1, ConcatFollows DEF u
  <1> HIDE DEF u
  <1>3. Len(u) \in Nat /\ \A i \in 1..Len(s) : i \in 1..Len(u) /\ u[i] = s[i]
    BY <1>2 DEF Follows
  <1>4. \A i \in 1..Len(t) : Len(s) + i \in 1..Len(u) /\ u[Len(s) + i] = t[i]
    BY <1>2 DEF Follows
  <1>5. \A i \in 1..Len(u) : i \notin 1..Len(s) =>
              i - Len(s) \in 1..Len(t) /\ u[i] = t[i - Len(s)]
    BY <1>2 DEF Follows
  <1>6. \A x \in A : \E i \in 1..Len(u) : u[i] = x
    <2> TAKE x \in A
    <2>1. CASE x \in S
      <3>1. PICK i \in 1..Len(s) : s[i] = x
        BY <2>1 DEF OnceEach
      <3> QED
        BY <1>3, <3>1
    <2>2. CASE x \in T
      <3>1. PICK i \in 1..Len(t) : t[i] = x
        BY <2>2 DEF OnceEach
      <3>2. Len(s) + i \in 1..Len(u) /\ u[Len(s) + i] = x
        BY <1>4, <3>1, Zenon
      <3> QED
        BY <3>2, Zenon
    <2> QED
      BY <2>1, <2>2
  <1>7. \A i \in 1..Len(u) : u[i] \in A
    BY <1>2, ElementOfSeq
  <1>8. ASSUME NEW i \in 1..Len(u), NEW j \in 1..Len(u), u[i] = u[j] PROVE i = j
    <2>1. CASE i \in 1..Len(s) /\ j \in 1..Len(s)
      BY <1>3, <1>8, <2>1 DEF OnceEach
    <2>2. CASE i \notin 1..Len(s) /\ j \notin 1..Len(s)
      <3>1. i - Len(s) \in 1..Len(t) /\ j - Len(s) \in 1..Len(t)
            /\ t[i - Len(s)] = t[j - Len(s)]
        BY <1>5, <1>8, <2>2, Zenon
      <3>2. i - Len(s) = j - Len(s)
        BY <3>1 DEF OnceEach
      <3>3. \A a, b, c \in Int : a - c = b - c => a = b
        OBVIOUS
      <3>4. i \in Int /\ j \in Int /\ Len(s) \in Int
        <4>1. Len(s) \in Int
          BY <1>1
        <4> QED
          BY <4>1
      <3> QED
        BY <3>2, <3>3, <3>4, Zenon
    <2>3. ASSUME NEW k \in 1..Len(u), NEW m \in 1..Len(u), u[k] = u[m],
                 k \in 1..Len(s), m \notin 1..Len(s)
          PROVE  FALSE
      <3>1. u[k] \in S
        BY <1>3, <2>3 DEF OnceEach
      <3>2. u[m] \in T
        BY <1>5, <2>3 DEF OnceEach
      <3> QED
        BY <2>3, <3>1, <3>2
    <2> QED
      BY <1>8, <2>1, <2>2, <2>3
  <1> QED
    BY <1>2, <1>3, <1>6, <1>7, <1>8 DEF OnceEach, u

LEMMA OnceToSet ==
    \A s, S : OnceEach(s, S) => ToSet(s) = S
  <1> SUFFICES ASSUME NEW s, NEW S, OnceEach(s, S) PROVE ToSet(s) = S
    OBVIOUS
  <1>1. DOMAIN s = 1..Len(s)
    BY LenProperties DEF OnceEach
  <1> QED
    BY <1>1 DEF OnceEach, ToSet

\* The numbers of a set of places.
LEMMA InOrderOnce ==
    \A n \in Nat : \A S \in SUBSET (1..n) : OnceEach(InOrder(S, n), S)
  <1> SUFFICES ASSUME NEW n \in Nat, NEW S \in SUBSET (1..n)
               PROVE  OnceEach(InOrder(S, n), S)
    OBVIOUS
  <1>1. S \cap (1..n) = S /\ S \in SUBSET Nat
    <2>1. \A i \in S : i \in 1..n /\ i \in Nat
      OBVIOUS
    <2> QED
      BY <2>1, Zenon
  <1>2. Enumerates(InOrder(S, n), S)
    BY <1>1, InOrderEnumerates
  <1> QED
    BY <1>1, <1>2, EnumeratesOnce

LEMMA ActiveRequestsOnce ==
    ASSUME NEW reqs, NEW seen, Lists(seen, reqs)
    PROVE  /\ OnceEach(ActiveRequests(seen), Actives(seen))
           /\ ToSet(ActiveRequests(seen)) = Actives(seen)
  <1> DEFINE N == Len(seen)
             those(state) == {r \in Latest(seen) : seen[r].state = state}
             s == InOrder(those("downloading"), N)
             t == InOrder(those("queued"), N)
  <1>1. N \in Nat /\ \A state : those(state) \in SUBSET (1..N)
    BY SameLatest, DownloadAssumption DEF Lists
  <1>2. ActiveRequests(seen) = s \o t
    BY DEF ActiveRequests
  <1>3. Actives(seen) = those("downloading") \cup those("queued")
    BY DEF Actives, Active
  <1>4. those("downloading") \cap those("queued") = {}
    OBVIOUS
  <1> HIDE DEF those, N
  <1>5. OnceEach(s, those("downloading")) /\ OnceEach(t, those("queued"))
    BY <1>1, InOrderOnce
  <1> HIDE DEF s, t
  <1>6. OnceEach(ActiveRequests(seen), Actives(seen))
    BY <1>2, <1>3, <1>4, <1>5, OnceBoth
  <1> QED
    BY <1>6, OnceToSet

-----------------------------------------------------------------------------
(* Marking attempts.                                                       *)

\* The same attempts, but for what says that a request is their rival's.
SameFields(q, ops) ==
    /\ Len(q) = Len(ops)
    /\ \A i \in 1..Len(ops) :
          /\ q[i].id = ops[i].id /\ q[i].album = ops[i].album
          /\ q[i].request = ops[i].request /\ q[i].pending = ops[i].pending
          /\ q[i].dispatched = ops[i].dispatched /\ q[i].confirmed = ops[i].confirmed

Marked(d, e) ==
    \E q \in Seq(Operations), shad \in SUBSET RequestIds :
        SameFields(q, d.operations) /\ e = [d EXCEPT !.operations = q, !.shadows = shad]

LEMMA MarkedSane ==
    ASSUME NEW reqs, NEW top, NEW d, Sane(d, reqs, top), NEW e, Marked(d, e)
    PROVE  /\ Sane(e, reqs, top) /\ Kept(d, e) /\ Carries(d, e, reqs)
           /\ e.exchange = d.exchange
  <1> DEFINE ops == d.operations
  <1>1. PICK q \in Seq(Operations), shad \in SUBSET RequestIds :
           SameFields(q, ops) /\ e = [d EXCEPT !.operations = q, !.shadows = shad]
    BY DEF Marked
  <1>2. d \in Owners /\ Settled(ops, reqs)
    BY SaneParts
  <1>3. /\ e \in Owners /\ e.operations = q /\ e.exchange = d.exchange
        /\ e.inflight = d.inflight
    BY <1>1, <1>2 DEF Owners
  <1> DEFINE g == [i \in 1..Len(ops) |-> i]
  <1>4. \A i \in 1..Len(ops) : g[i] = i
    OBVIOUS
  <1> HIDE DEF g, ops
  <1>5. Draws(q, ops, g) /\ Apart(q, g)
    BY <1>1, <1>4 DEF Draws, Apart, SameFields
  <1>6. Settled(q, reqs)
    BY <1>1, <1>2 DEF Settled, SameFields
  <1>7. Sane(e, reqs, top) /\ Kept(d, e)
    BY <1>3, <1>5, <1>6, Redrawn DEF ops, StillHeld
  <1>8. Carries(d, e, reqs)
    BY <1>1, <1>3 DEF Carries, Carried, SameFields, ops
  <1> QED
    BY <1>3, <1>7, <1>8

-----------------------------------------------------------------------------
(* Adopting the active requests.                                           *)

\* One more attempt.
Adds(q, ops, o) ==
    /\ Len(q) \in Nat /\ Len(q) \in 1..Len(q) /\ q[Len(q)] = o
    /\ \A i \in 1..Len(ops) : i \in 1..Len(q) /\ q[i] = ops[i]
    /\ \A i \in 1..Len(q) : i \notin 1..Len(ops) => i = Len(q)

LEMMA AppendAdds ==
    ASSUME NEW S, NEW ops \in Seq(S), NEW o \in S
    PROVE  Append(ops, o) \in Seq(S) /\ Adds(Append(ops, o), ops, o)
  <1> DEFINE q == Append(ops, o)
  <1>1. q \in Seq(S) /\ Len(q) = Len(ops) + 1 /\ \A i \in 1..Len(ops) : q[i] = ops[i]
    BY AppendProperties
  <1>2. q[Len(ops) + 1] = o
    BY AppendProperties
  <1>3. Len(ops) \in Nat
    BY LenProperties
  <1> HIDE DEF q
  <1>4. Len(q) \in Nat /\ q[Len(q)] = o
    BY <1>1, <1>2, <1>3
  <1>5. \A a, b \in Nat : b = a + 1 =>
            /\ b \in 1..b /\ \A i \in 1..a : i \in 1..b
            /\ \A i \in 1..b : i \notin 1..a => i = b
    OBVIOUS
  <1> QED
    BY <1>1, <1>3, <1>4, <1>5, Zenon DEF Adds, q

\* The attempt of a request that has none.
Adopted(r, album) ==
    [Attempt(r, album) EXCEPT !.request = r, !.dispatched = TRUE, !.confirmed = TRUE]

LEMMA AdoptedFields ==
    ASSUME NEW r \in RequestIds, NEW album \in Albums, NEW o, o = Adopted(r, album)
    PROVE  /\ o \in Operations /\ o.id = r /\ o.album = album /\ o.request = r
           /\ o.dispatched /\ o.confirmed /\ ~o.pending
  BY DEF Adopted, Attempt, Operations, Ids

\* Where the attempts of e come from: some are made of requests of A.
Moves(d, e, A) ==
    \A j \in 1..Len(e.operations) :
        \/ e.operations[j].request \in A /\ e.operations[j].id = e.operations[j].request
        \/ \E i \in 1..Len(d.operations) :
              /\ e.operations[j].id = d.operations[i].id
              /\ e.operations[j].album = d.operations[i].album
              /\ e.operations[j].request = d.operations[i].request

LEMMA MovesTwice ==
    ASSUME NEW A, NEW c, NEW d, NEW e, Moves(c, d, A), Moves(d, e, A)
    PROVE  Moves(c, e, A)
  <1> SUFFICES ASSUME NEW j \in 1..Len(e.operations),
                      ~(/\ e.operations[j].request \in A
                        /\ e.operations[j].id = e.operations[j].request)
               PROVE  \E i \in 1..Len(c.operations) :
                         /\ e.operations[j].id = c.operations[i].id
                         /\ e.operations[j].album = c.operations[i].album
                         /\ e.operations[j].request = c.operations[i].request
    BY DEF Moves
  <1>1. PICK k \in 1..Len(d.operations) :
           /\ e.operations[j].id = d.operations[k].id
           /\ e.operations[j].album = d.operations[k].album
           /\ e.operations[j].request = d.operations[k].request
    BY DEF Moves
  <1>2. ~(/\ d.operations[k].request \in A
          /\ d.operations[k].id = d.operations[k].request)
    BY <1>1
  <1>3. PICK i \in 1..Len(c.operations) :
           /\ d.operations[k].id = c.operations[i].id
           /\ d.operations[k].album = c.operations[i].album
           /\ d.operations[k].request = c.operations[i].request
    BY <1>2 DEF Moves
  <1> QED
    BY <1>1, <1>3

LEMMA KeptMoves == \A A, d, e : Kept(d, e) => Moves(d, e, A)
  BY DEF Kept, Moves

Joins(d, e, r, album) == e = [d EXCEPT !.operations = Append(@, Adopted(r, album))]

\* A request that no attempt of its album has.
Unclaimed(d, r, album, reqs) ==
    /\ Carried(d, reqs)
    /\ r \in RequestIds /\ r \in Latest(reqs) /\ r \in 1..Len(reqs)
    /\ album = reqs[r].album /\ album \in Albums /\ Places(d, album) = {}

Tops(top) == top \in Nat /\ MaxRequests <= top

LEMMA AppendSane ==
    ASSUME NEW reqs, NEW top, Tops(top), NEW d, Sane(d, reqs, top), NEW r, NEW album,
           Unclaimed(d, r, album, reqs), NEW e, Joins(d, e, r, album)
    PROVE  /\ Sane(e, reqs, top) /\ Moves(d, e, {r}) /\ Carried(e, reqs)
           /\ e.exchange = d.exchange
  <1> DEFINE ops == d.operations
             o == Adopted(r, album)
             q == Append(ops, o)
  <1>0. /\ Carried(d, reqs)
        /\ r \in RequestIds /\ r \in Latest(reqs) /\ r \in 1..Len(reqs)
        /\ album = reqs[r].album /\ album \in Albums /\ Places(d, album) = {}
        /\ top \in Nat /\ MaxRequests <= top
    BY DEF Unclaimed, Tops
  <1>1. /\ d \in Owners /\ Distinct(d, top) /\ Owned(d, reqs) /\ Locked(d)
        /\ Posting(d, reqs, top)
    BY SaneParts
  <1>2. /\ o \in Operations /\ o.id = r /\ o.album = album /\ o.request = r
        /\ o.dispatched /\ o.confirmed /\ ~o.pending
    BY <1>0, AdoptedFields
  <1>3. q \in Seq(Operations) /\ Adds(q, ops, o)
    <2>1. ops \in Seq(Operations)
      BY <1>1, OwnerFields
    <2> HIDE DEF o, ops
    <2> QED
      BY <1>2, <2>1, AppendAdds
  <1>4. /\ e \in Owners /\ e.operations = q /\ e.exchange = d.exchange
        /\ e.inflight = d.inflight
    <2>1. e = [d EXCEPT !.operations = q]
      BY DEF Joins
    <2> HIDE DEF q
    <2> QED
      BY <1>1, <1>3, <2>1 DEF Owners
  <1>5. \A i \in 1..Len(ops) : ops[i].album # album /\ ops[i].id # r
    <2> TAKE i \in 1..Len(ops)
    <2>1. ops[i].album # album
      BY <1>0 DEF Places
    <2>2. i \notin AttemptPlaces(d, r)
      BY <1>0, <2>1, NamedAlbum
    <2> QED
      BY <2>1, <2>2 DEF AttemptPlaces
  <1> HIDE DEF q, o
  <1>6. /\ Len(q) \in Nat /\ Len(q) \in 1..Len(q) /\ q[Len(q)] = o
        /\ \A i \in 1..Len(ops) : i \in 1..Len(q) /\ q[i] = ops[i]
        /\ \A i \in 1..Len(q) : i \notin 1..Len(ops) => i = Len(q)
    BY <1>3 DEF Adds
  <1> HIDE DEF ops
  <1>7. \A i \in 1..Len(q) : \/ i \in 1..Len(ops) /\ q[i] = ops[i]
                             \/ i = Len(q) /\ q[i] = o
    <2> TAKE i \in 1..Len(q)
    <2>1. CASE i \in 1..Len(ops)
      <3>1. \A k \in 1..Len(ops) : q[k] = ops[k]
        BY <1>6
      <3>2. q[i] = ops[i]
        BY <2>1, <3>1, Zenon
      <3> QED
        BY <2>1, <3>2
    <2>2. CASE i \notin 1..Len(ops)
      BY <1>6, <2>2, Zenon
    <2> QED
      BY <2>1, <2>2
  <1>8. Distinct(e, top)
    <2>1. \A i, j \in 1..Len(ops) :
              ops[i].id = ops[j].id \/ ops[i].album = ops[j].album => i = j
      BY <1>1 DEF Distinct, ops
    <2>2. ASSUME NEW i \in 1..Len(q), NEW j \in 1..Len(q),
                 q[i].id = q[j].id \/ q[i].album = q[j].album
          PROVE  i = j
      <3>1. CASE i \in 1..Len(ops) /\ j \in 1..Len(ops)
        BY <1>6, <2>1, <2>2, <3>1
      <3>2. CASE i \notin 1..Len(ops) /\ j \notin 1..Len(ops)
        BY <1>6, <3>2
      <3>3. CASE i \in 1..Len(ops) /\ j \notin 1..Len(ops)
        BY <1>2, <1>5, <1>6, <1>7, <2>2, <3>3
      <3>4. CASE i \notin 1..Len(ops) /\ j \in 1..Len(ops)
        BY <1>2, <1>5, <1>6, <1>7, <2>2, <3>4
      <3> QED
        BY <3>1, <3>2, <3>3, <3>4
    <2>3. r <= top
      BY <1>0, DownloadAssumption DEF RequestIds
    <2>4. \A i \in 1..Len(ops) : ops[i].id <= top
      BY <1>1 DEF Distinct, ops
    <2>5. \A i \in 1..Len(q) : q[i].id <= top
      BY <1>2, <1>7, <2>3, <2>4
    <2> QED
      BY <1>4, <2>2, <2>5 DEF Distinct
  <1>9. Owned(e, reqs)
    <2> SUFFICES ASSUME NEW i \in 1..Len(q)
                 PROVE  /\ q[i].request # None => /\ q[i].request \in 1..Len(reqs)
                                                  /\ reqs[q[i].request].album = q[i].album
                        /\ q[i].request \in Latest(reqs) => q[i].dispatched /\ q[i].confirmed
                        /\ q[i].id \in RequestIds => /\ q[i].request = q[i].id
                                                     /\ q[i].id \in Latest(reqs)
      BY <1>4 DEF Owned
    <2>1. CASE i \in 1..Len(ops) /\ q[i] = ops[i]
      BY <1>1, <2>1 DEF Owned, ops
    <2>2. CASE q[i] = o
      BY <1>0, <1>2, <2>2
    <2> QED
      BY <1>7, <2>1, <2>2
  <1>10. Locked(e)
    <2>1. \A i \in 1..Len(ops) : ops[i].pending => ops[i].id = d.inflight
      BY <1>1 DEF Locked, ops
    <2>2. \A i \in 1..Len(q) : q[i].pending => q[i].id = d.inflight
      BY <1>2, <1>7, <2>1
    <2> QED
      BY <1>1, <1>4, <2>2 DEF Locked
  <1>11. Posting(e, reqs, top)
    <2> SUFFICES ASSUME IsPost(d.exchange) PROVE Posting(e, reqs, top)
      BY <1>4 DEF Posting
    <2>1. PICK k \in 1..Len(ops) : ops[k].id = d.exchange.id
      BY <1>0 DEF Carried, ops
    <2>2. \A i \in 1..Len(ops) :
              /\ ops[i].id = d.exchange.id => ops[i].album = d.exchange.album
              /\ ops[i].id \in RequestIds => ops[i].album # d.exchange.album
      BY <1>1 DEF Posting, ops
    <2>3. d.exchange.album # album
      BY <1>5, <2>1, <2>2
    <2>4. r # d.exchange.id
      BY <1>0, PostName, IdsApart
    <2>5. \A i \in 1..Len(q) :
              /\ q[i].id = d.exchange.id => q[i].album = d.exchange.album
              /\ q[i].id \in RequestIds => q[i].album # d.exchange.album
      BY <1>2, <1>7, <2>2, <2>3, <2>4
    <2> QED
      BY <1>1, <1>4, <2>5 DEF Posting
  <1>12. Moves(d, e, {r})
    <2> SUFFICES ASSUME NEW j \in 1..Len(q), ~(q[j].request \in {r} /\ q[j].id = q[j].request)
                 PROVE  \E i \in 1..Len(ops) : q[j] = ops[i]
      BY <1>4 DEF Moves, ops
    <2> QED
      BY <1>2, <1>7
  <1>13. Carried(e, reqs)
    <2> SUFFICES ASSUME IsPost(d.exchange)
                 PROVE  \E i \in 1..Len(q) : /\ q[i].id = d.exchange.id
                                             /\ q[i].request \notin Latest(reqs)
      BY <1>4 DEF Carried
    <2>1. PICK k \in 1..Len(ops) : /\ ops[k].id = d.exchange.id
                                   /\ ops[k].request \notin Latest(reqs)
      BY <1>0 DEF Carried, ops
    <2> QED
      BY <1>6, <2>1
  <1> QED
    BY <1>4, <1>8, <1>9, <1>10, <1>11, <1>12, <1>13 DEF Sane

-----------------------------------------------------------------------------
(* The cases of reconcile_startup.                                         *)

Remarks(q, ops) ==
    /\ q = [i \in 1..Len(ops) |-> q[i]]
    /\ \A i \in 1..Len(ops) :
          \/ q[i] = ops[i]
          \/ \E b \in BOOLEAN : q[i] = [ops[i] EXCEPT !.conflict = b]

Remarked(d, e, q, shad) == e = [d EXCEPT !.operations = q, !.shadows = shad]

LEMMA MarkedBy ==
    ASSUME NEW d \in Owners, NEW q, Remarks(q, d.operations),
           NEW shad \in SUBSET RequestIds, NEW e, Remarked(d, e, q, shad)
    PROVE  Marked(d, e)
  <1> DEFINE ops == d.operations
  <1>1. Len(ops) \in Nat /\ \A i \in 1..Len(ops) : ops[i] \in Operations
    BY OwnerFields
  <1> HIDE DEF ops
  <1>2. \A i \in 1..Len(ops) :
           /\ q[i] \in Operations
           /\ q[i].id = ops[i].id /\ q[i].album = ops[i].album
           /\ q[i].request = ops[i].request /\ q[i].pending = ops[i].pending
           /\ q[i].dispatched = ops[i].dispatched /\ q[i].confirmed = ops[i].confirmed
    <2> TAKE i \in 1..Len(ops)
    <2> DEFINE o == ops[i]
               p == q[i]
    <2>0. o \in Operations
      BY <1>1
    <2>1. p = o \/ \E b \in BOOLEAN : p = [o EXCEPT !.conflict = b]
      BY DEF Remarks, ops
    <2> HIDE DEF o, p
    <2>2. CASE p = o
      BY <2>0, <2>2 DEF o, p
    <2>3. ASSUME NEW b \in BOOLEAN, p = [o EXCEPT !.conflict = b]
          PROVE  /\ p \in Operations
                 /\ p.id = o.id /\ p.album = o.album /\ p.request = o.request
                 /\ p.pending = o.pending
                 /\ p.dispatched = o.dispatched /\ p.confirmed = o.confirmed
      BY <2>0, <2>3 DEF Operations
    <2>4. CASE \E b \in BOOLEAN : p = [o EXCEPT !.conflict = b]
      BY <2>3, <2>4 DEF o, p
    <2> QED
      BY <2>1, <2>2, <2>4
  <1>3. q \in Seq(Operations) /\ Len(q) = Len(ops)
    <2>1. \A i \in 1..Len(ops) : q[i] \in Operations
      BY <1>2
    <2>2. q = [i \in 1..Len(ops) |-> q[i]]
      BY DEF Remarks, ops
    <2> QED
      BY <1>1, <2>1, <2>2, SeqMade
  <1>4. SameFields(q, ops)
    BY <1>2, <1>3 DEF SameFields
  <1> QED
    BY <1>3, <1>4 DEF Marked, Remarked, ops

\* What adopting does: no attempt is lost, and new ones are those of requests of A.
Adopts(d, e, reqs, top, A) ==
    Sane(e, reqs, top) /\ Moves(d, e, A) /\ Carried(e, reqs) /\ e.exchange = d.exchange

LEMMA AdoptsTwice ==
    ASSUME NEW reqs, NEW top, NEW A, NEW c, NEW d, NEW e,
           Adopts(c, d, reqs, top, A), Adopts(d, e, reqs, top, A)
    PROVE  Adopts(c, e, reqs, top, A)
  BY MovesTwice DEF Adopts

LEMMA AdoptWorks ==
    ASSUME NEW reqs, NEW top, Tops(top), NEW d, Sane(d, reqs, top),
           Carried(d, reqs), NEW seen, Lists(seen, reqs), NEW r \in Latest(seen),
           NEW e, e = Adopt(d, r, seen)
    PROVE  Adopts(d, e, reqs, top, {r})
  <1> DEFINE album == seen[r].album
             own == {i \in AttemptPlaces(d, r) : d.operations[i].album = album}
             ops == d.operations
  <1>0. /\ d \in Owners /\ ops \in Seq(Operations) /\ Len(ops) \in Nat
        /\ \A i \in 1..Len(ops) : ops[i] \in Operations
        /\ d.shadows \in SUBSET RequestIds
    BY SaneParts, OwnerFields
  <1>1. /\ r \in RequestIds /\ r \in Latest(reqs) /\ r \in 1..Len(reqs)
        /\ r \in 1..Len(seen)
    BY SameLatest DEF Lists
  <1>2. album = reqs[r].album /\ album \in Albums
    <2>1. seen[r] \in Requests
      BY <1>1, ElementOfSeq DEF Lists
    <2> QED
      BY <1>1, <2>1 DEF Lists, Requests
  <1>3. ASSUME Marked(d, e) PROVE Adopts(d, e, reqs, top, {r})
    BY <1>3, MarkedSane, KeptMoves DEF Adopts, Carries
  <1>4. CASE own # {}
    <2> DEFINE q == [i \in 1..Len(ops) |->
                        IF i \in own THEN [ops[i] EXCEPT !.request = r] ELSE ops[i]]
               shad == d.shadows \ {r}
    <2>1. e = [d EXCEPT !.operations = q, !.shadows = shad]
      BY <1>4 DEF Adopt
    <2>2. shad \in SUBSET RequestIds
      BY <1>0
    <2>3. \A i \in 1..Len(ops) : q[i] = ops[i]
      <3> TAKE i \in 1..Len(ops)
      <3>1. q[i] = IF i \in own THEN [ops[i] EXCEPT !.request = r] ELSE ops[i]
        OBVIOUS
      <3>2. ASSUME i \in own PROVE [ops[i] EXCEPT !.request = r] = ops[i]
        <4>1. ops[i].request = r
          BY <1>1, <3>2, NamedAlbum
        <4> DEFINE o == ops[i]
        <4>2. o \in Operations
          BY <1>0
        <4>3. o.request = r
          BY <4>1
        <4> HIDE DEF o
        <4>4. [o EXCEPT !.request = r] = o
          BY <4>2, <4>3 DEF Operations
        <4> QED
          BY <4>4 DEF o
      <3> HIDE DEF q
      <3> QED
        BY <3>1, <3>2
    <2>4. q = [i \in 1..Len(ops) |-> q[i]]
      OBVIOUS
    <2> HIDE DEF q, shad
    <2>5. Remarks(q, ops) /\ Remarked(d, e, q, shad)
      BY <2>1, <2>3, <2>4 DEF Remarks, Remarked
    <2>6. Marked(d, e)
      BY <1>0, <2>2, <2>5, MarkedBy
    <2> QED
      BY <1>3, <2>6
  <1>5. CASE own = {} /\ Places(d, album) # {}
    <2> DEFINE q == [i \in 1..Len(ops) |->
                        IF i \in Places(d, album) THEN [ops[i] EXCEPT !.conflict = TRUE]
                        ELSE ops[i]]
               shad == d.shadows \cup {r}
    <2>1. e = [d EXCEPT !.operations = q, !.shadows = shad]
      BY <1>5 DEF Adopt
    <2>2. shad \in SUBSET RequestIds
      BY <1>0, <1>1
    <2>3. \A i \in 1..Len(ops) :
              q[i] = ops[i] \/ \E b \in BOOLEAN : q[i] = [ops[i] EXCEPT !.conflict = b]
      OBVIOUS
    <2>4. q = [i \in 1..Len(ops) |-> q[i]]
      OBVIOUS
    <2> HIDE DEF q, shad
    <2>5. Remarks(q, ops) /\ Remarked(d, e, q, shad)
      BY <2>1, <2>3, <2>4 DEF Remarks, Remarked
    <2>6. Marked(d, e)
      BY <1>0, <2>2, <2>5, MarkedBy
    <2> QED
      BY <1>3, <2>6
  <1>6. CASE own = {} /\ Places(d, album) = {}
    <2>1. Joins(d, e, r, album)
      BY <1>6 DEF Adopt, Joins, Adopted
    <2>2. Unclaimed(d, r, album, reqs)
      BY <1>1, <1>2, <1>6 DEF Unclaimed
    <2> HIDE DEF album
    <2> QED
      BY <2>1, <2>2, AppendSane DEF Adopts
  <1> QED
    BY <1>4, <1>5, <1>6

-----------------------------------------------------------------------------
(* All the active requests are adopted, one after the other.                *)

Cleared(d) ==
    [d EXCEPT !.operations = [i \in 1..Len(@) |-> [@[i] EXCEPT !.conflict = FALSE]]]

AdoptsUp(d, seen, f) ==
    f = [n \in 0..Len(ActiveRequests(seen)) |->
            IF n = 0 THEN Cleared(d) ELSE Adopt(f[n - 1], ActiveRequests(seen)[n], seen)]

LEMMA AdoptAllRuns ==
    \A d, seen : (\E f : AdoptsUp(d, seen, f))
        => \E f : /\ AdoptsUp(d, seen, f)
                  /\ AdoptAll(d, seen) =
                         [f[Len(ActiveRequests(seen))] EXCEPT
                              !.shadows = @ \cap ToSet(ActiveRequests(seen))]
  BY DEF AdoptAll, AdoptsUp, Cleared

LEMMA ClearedMarked ==
    ASSUME NEW d \in Owners, NEW e, e = Cleared(d)
    PROVE  Marked(d, e)
  <1> DEFINE ops == d.operations
             q == [i \in 1..Len(ops) |-> [ops[i] EXCEPT !.conflict = FALSE]]
  <1>1. d.shadows \in SUBSET RequestIds
    BY OwnerFields
  <1>2. Remarked(d, e, q, d.shadows)
    <2>1. e = [d EXCEPT !.operations = q]
      BY DEF Cleared
    <2> HIDE DEF q
    <2>2. e = [d EXCEPT !.operations = q, !.shadows = d.shadows]
      BY <2>1 DEF Owners
    <2> QED
      BY <2>2 DEF Remarked
  <1>3. q = [i \in 1..Len(ops) |-> q[i]]
    OBVIOUS
  <1>4. \A i \in 1..Len(ops) : \E b \in BOOLEAN : q[i] = [ops[i] EXCEPT !.conflict = b]
    OBVIOUS
  <1> HIDE DEF q
  <1>5. Remarks(q, ops)
    BY <1>3, <1>4 DEF Remarks
  <1> QED
    BY <1>1, <1>2, <1>5, MarkedBy

LEMMA AdoptAllWorks ==
    ASSUME NEW reqs, NEW top, Tops(top), NEW d, Sane(d, reqs, top),
           Carried(d, reqs), NEW seen, Lists(seen, reqs), NEW e, e = AdoptAll(d, seen)
    PROVE  Adopts(d, e, reqs, top, Actives(seen))
  <1> DEFINE order == ActiveRequests(seen)
             A == Actives(seen)
             N == Len(order)
             clear == Cleared(d)
             D == {x \in Owners : Sane(x, reqs, top) /\ Carried(x, reqs)}
             step == [n \in 1..N |-> [x \in D |-> Adopt(x, order[n], seen)]]
  <1>0. OnceEach(order, A) /\ ToSet(order) = A /\ A \subseteq Latest(seen)
    BY ActiveRequestsOnce DEF Actives
  <1>1. N \in Nat /\ \A n \in 1..N : order[n] \in A
    BY <1>0 DEF OnceEach
  <1>2. Adopts(d, clear, reqs, top, A) /\ clear \in D
    <2>1. Marked(d, clear)
      BY SaneParts, ClearedMarked
    <2> HIDE DEF clear
    <2>2. Sane(clear, reqs, top) /\ Kept(d, clear) /\ Carries(d, clear, reqs)
          /\ clear.exchange = d.exchange
      BY <2>1, MarkedSane
    <2>3. Carried(clear, reqs) /\ clear \in Owners
      BY <2>2 DEF Carries, Sane
    <2> QED
      BY <2>2, <2>3, KeptMoves DEF Adopts
  <1>3. ASSUME NEW n \in 1..N, NEW x \in D, NEW y, y = Adopt(x, order[n], seen)
        PROVE  y \in D /\ Adopts(x, y, reqs, top, A)
    <2>1. Sane(x, reqs, top) /\ Carried(x, reqs) /\ order[n] \in A
          /\ order[n] \in Latest(seen)
      BY <1>0, <1>1
    <2> DEFINE r == order[n]
    <2> HIDE DEF r
    <2>2. Adopts(x, y, reqs, top, {r})
      <3>1. r \in Latest(seen) /\ y = Adopt(x, r, seen)
        BY <1>3, <2>1 DEF r
      <3> QED
        BY <2>1, <3>1, AdoptWorks
    <2>3. Moves(x, y, A)
      BY <2>1, <2>2 DEF Adopts, Moves, r
    <2>4. y \in Owners
      BY <2>2 DEF Adopts, Sane
    <2> QED
      BY <2>2, <2>3, <2>4 DEF Adopts
  <1>4. step \in [1..N -> [D -> D]]
    <2> SUFFICES ASSUME NEW n \in 1..N, NEW x \in D PROVE Adopt(x, order[n], seen) \in D
      OBVIOUS
    <2> HIDE DEF D, N, order
    <2> QED
      BY <1>3
  <1>5. \A n \in 1..N : \A x \in D : step[n][x] = Adopt(x, order[n], seen)
    OBVIOUS
  <1> HIDE DEF step, D, N, clear, order, A
  <1>6. PICK g \in [0..N -> D] : g[0] = clear /\ \A n \in 1..N : g[n] = step[n][g[n - 1]]
    <2>1. Stepping(N, D, step)
      BY <1>4 DEF Stepping
    <2>2. PICK g : Folds(N, D, clear, step, g)
      BY <1>1, <1>2, <2>1, FoldExists
    <2> QED
      BY <2>2 DEF Folds
  <1>7. AdoptsUp(d, seen, g)
    <2>1. \A n \in 0..N : g[n] = IF n = 0 THEN clear ELSE Adopt(g[n - 1], order[n], seen)
      <3> TAKE n \in 0..N
      <3>1. CASE n = 0
        BY <1>6, <3>1
      <3>2. CASE n # 0
        <4>1. n \in 1..N /\ n - 1 \in 0..N /\ g[n - 1] \in D
          BY <1>1, <1>6, <3>2
        <4>2. g[n] = step[n][g[n - 1]]
          BY <1>6, <4>1
        <4> QED
          BY <1>5, <3>2, <4>1, <4>2
      <3> QED
        BY <3>1, <3>2
    <2> QED
      BY <1>6, <2>1 DEF AdoptsUp, N, order, clear
  <1>8. PICK f : AdoptsUp(d, seen, f) /\ e = [f[N] EXCEPT !.shadows = @ \cap ToSet(order)]
    BY <1>7, AdoptAllRuns DEF N, order
  <1>9. \A n \in 0..N : f[n] = IF n = 0 THEN clear ELSE Adopt(f[n - 1], order[n], seen)
    <2> DEFINE body == [n \in 0..N |-> IF n = 0 THEN clear
                                       ELSE Adopt(f[n - 1], order[n], seen)]
    <2>1. f = body
      BY <1>8 DEF AdoptsUp, N, order, clear
    <2>2. \A n \in 0..N : body[n] = IF n = 0 THEN clear
                                    ELSE Adopt(f[n - 1], order[n], seen)
      OBVIOUS
    <2> HIDE DEF body
    <2> QED
      BY <2>1, <2>2
  <1> DEFINE Fine(n) == f[n] \in D /\ Adopts(d, f[n], reqs, top, A)
             Good == {n \in 0..N : Fine(n)}
  <1>10. 0 \in Good
    <2>1. f[0] = clear /\ 0 \in 0..N
      BY <1>1, <1>9
    <2> QED
      BY <1>2, <2>1
  <1>11. ASSUME NEW n \in 1..N, n - 1 \in Good PROVE n \in Good
    <2>1. n \in 0..N /\ n # 0 /\ Fine(n - 1)
      BY <1>1, <1>11
    <2> DEFINE x == f[n - 1]
               y == f[n]
    <2>2. x \in D /\ Adopts(d, x, reqs, top, A)
      BY <2>1
    <2>3. y = Adopt(x, order[n], seen)
      BY <1>9, <2>1
    <2> HIDE DEF x, y
    <2>4. y \in D /\ Adopts(x, y, reqs, top, A)
      BY <1>3, <2>2, <2>3
    <2>5. Adopts(d, y, reqs, top, A)
      BY <2>2, <2>4, AdoptsTwice
    <2> QED
      BY <2>1, <2>4, <2>5 DEF y
  <1>12. Fine(N)
    <2>1. Good \in SUBSET (0..N)
      OBVIOUS
    <2>2. N \in Good
      <3> HIDE DEF Good
      <3> QED
        BY <1>1, <1>10, <1>11, <2>1, FoldKeeps
    <2> QED
      BY <2>2
  <1> DEFINE x == f[N]
  <1>13. Adopts(d, x, reqs, top, A) /\ e = [x EXCEPT !.shadows = @ \cap ToSet(order)]
    BY <1>8, <1>12
  <1> HIDE DEF x
  <1>14. Sane(x, reqs, top) /\ x \in Owners
    BY <1>13 DEF Adopts, Sane
  <1>15. Noted(x, e)
    <2> DEFINE shad == x.shadows \cap ToSet(order)
    <2>1. e = [x EXCEPT !.shadows = shad]
      BY <1>13
    <2>2. /\ shad \in SUBSET RequestIds /\ x.downloaded \in SUBSET Albums
          /\ x.failed \in SUBSET Albums
      BY <1>14 DEF Owners
    <2> HIDE DEF shad
    <2>3. e = [x EXCEPT !.shadows = shad, !.downloaded = x.downloaded, !.failed = x.failed]
      BY <1>14, <2>1 DEF Owners
    <2> QED
      BY <2>2, <2>3 DEF Noted
  <1>16. Adopts(x, e, reqs, top, A)
    <2>1. Works(x, e, reqs, top) /\ Carries(x, e, reqs) /\ e.exchange = x.exchange
      BY <1>14, <1>15, NotedWorks
    <2> QED
      BY <1>13, <2>1, KeptMoves DEF Adopts, Works, Carries
  <1> QED
    BY <1>13, <1>16, AdoptsTwice DEF A

-----------------------------------------------------------------------------
(* Sorting the attempts.                                                   *)

\* The requests that observed attempts of their albums answer, in their order, and
\* those attempts.
ForAlbum(ops, O, r, seen) == {i \in O : ops[i].album = seen[r].album}

AskedFor(ops, O, seen) ==
    LET order == ActiveRequests(seen)
    IN  At(order, InOrder({n \in 1..Len(order) : ForAlbum(ops, O, order[n], seen) # {}},
                          Len(order)))

First(ops, O, seen) ==
    [n \in 1..Len(AskedFor(ops, O, seen)) |->
        CHOOSE i \in ForAlbum(ops, O, AskedFor(ops, O, seen)[n], seen) : TRUE]

LEMMA FirstOnce ==
    ASSUME NEW reqs, NEW seen, Lists(seen, reqs), NEW ops, NEW O, NEW F,
           F = First(ops, O, seen)
    PROVE  OnceEach(F, ToSet(F)) /\ ToSet(F) \subseteq O
  <1> DEFINE order == ActiveRequests(seen)
             N == Len(order)
             K == {n \in 1..N : ForAlbum(ops, O, order[n], seen) # {}}
             s == InOrder(K, N)
             asked == At(order, s)
             of(n) == ForAlbum(ops, O, asked[n], seen)
  <1>1. OnceEach(order, Actives(seen)) /\ Actives(seen) \subseteq Latest(seen)
    BY ActiveRequestsOnce DEF Actives
  <1>2. N \in Nat /\ K \in SUBSET (1..N)
    BY <1>1 DEF OnceEach
  <1>3. F = [n \in 1..Len(asked) |-> CHOOSE i \in of(n) : TRUE]
    BY DEF First, AskedFor
  <1>0. F = [n \in 1..Len(asked) |-> F[n]]
    <2> HIDE DEF of, asked
    <2> QED
      BY <1>3
  <1>4. asked = [n \in 1..Len(s) |-> order[s[n]]]
    BY DEF At
  <1> HIDE DEF order, N, s
  <1>5. OnceEach(s, K)
    <2> HIDE DEF K
    <2> QED
      BY <1>2, InOrderOnce DEF s
  <1>6. Len(s) \in Nat /\ (\A n \in 1..Len(s) : s[n] \in K)
        /\ \A m, n \in 1..Len(s) : s[m] = s[n] => m = n
    BY <1>5 DEF OnceEach
  <1>7. Len(asked) = Len(s) /\ \A n \in 1..Len(s) : asked[n] = order[s[n]]
    <2>1. \A n \in 1..Len(s) : asked[n] = order[s[n]]
      BY <1>4
    <2>2. asked \in Seq({order[s[n]] : n \in 1..Len(s)}) /\ Len(asked) = Len(s)
      <3>1. asked = [n \in 1..Len(s) |-> asked[n]]
        BY <1>4
      <3> HIDE DEF asked
      <3> QED
        BY <1>6, <2>1, <3>1, SeqMade
    <2> QED
      BY <2>1, <2>2
  <1> HIDE DEF asked
  <1>8. \A n \in 1..Len(s) : /\ of(n) # {} /\ s[n] \in 1..N /\ asked[n] = order[s[n]]
                            /\ asked[n] \in Latest(seen)
    <2> TAKE n \in 1..Len(s)
    <2>1. s[n] \in K /\ asked[n] = order[s[n]]
      BY <1>6, <1>7
    <2>2. order[s[n]] \in Latest(seen)
      BY <1>1, <2>1 DEF OnceEach, N
    <2> QED
      BY <2>1, <2>2
  <1>9. \A n \in 1..Len(s) : F[n] \in of(n)
    BY <1>3, <1>7, <1>8
  <1>10. \A n \in 1..Len(s) : F[n] \in O /\ ops[F[n]].album = seen[asked[n]].album
    BY <1>9 DEF ForAlbum
  <1> HIDE DEF of
  <1>11. ASSUME NEW m \in 1..Len(s), NEW n \in 1..Len(s), F[m] = F[n] PROVE m = n
    <2>1. seen[asked[m]].album = seen[asked[n]].album
      BY <1>10, <1>11
    <2>2. asked[m] = asked[n]
      <3>1. asked[m] \in Latest(seen) /\ asked[n] \in Latest(seen)
        BY <1>8
      <3>2. \A a, b \in Latest(seen) : seen[a].album = seen[b].album => a = b
        <4> TAKE a, b \in Latest(seen)
        <4> HAVE seen[a].album = seen[b].album
        <4>1. a \in Nat /\ b \in Nat
          BY SameLatest DEF RequestIds
        <4>2. a <= b /\ b <= a
          BY DEF Latest
        <4> QED
          BY <4>1, <4>2
      <3> QED
        BY <2>1, <3>1, <3>2
    <2>3. order[s[m]] = order[s[n]] /\ s[m] \in 1..N /\ s[n] \in 1..N
      BY <1>8, <2>2
    <2>4. s[m] = s[n]
      BY <1>1, <2>3 DEF OnceEach, N
    <2> QED
      BY <1>6, <2>4
  <1>12. F = [n \in 1..Len(s) |-> F[n]]
    BY <1>0, <1>7
  <1>13. DOMAIN F = 1..Len(s)
    BY <1>12
  <1>14. /\ \A n \in 1..Len(s) : F[n] \in ToSet(F)
         /\ \A x \in ToSet(F) : \E n \in 1..Len(s) : F[n] = x
    BY <1>13 DEF ToSet
  <1>15. F \in Seq(ToSet(F)) /\ Len(F) = Len(s)
    <2>1. Len(s) \in Nat /\ \A n \in 1..Len(s) : F[n] \in ToSet(F)
      BY <1>6, <1>14
    <2> DEFINE T == ToSet(F)
               k == Len(s)
    <2> HIDE DEF T, k
    <2>2. k \in Nat /\ F = [n \in 1..k |-> F[n]] /\ \A n \in 1..k : F[n] \in T
      BY <1>12, <2>1 DEF T, k
    <2>3. F \in Seq(T) /\ Len(F) = k
      BY <2>2, SeqMade
    <2> QED
      BY <2>3 DEF T, k
  <1>16. OnceEach(F, ToSet(F))
    BY <1>6, <1>11, <1>14, <1>15 DEF OnceEach
  <1> QED
    BY <1>10, <1>14, <1>16

LEMMA ReviewedFields ==
    ASSUME NEW o \in Operations, NEW active, NEW loading, NEW p,
           p = Reviewed(o, active, loading)
    PROVE  /\ p \in Operations
           /\ p.id = o.id /\ p.album = o.album /\ p.request = o.request
           /\ p.pending => o.pending /\ ~Observed(o, active)
           /\ Observed(o, active) => p.dispatched /\ p.confirmed
  <1>1. CASE Observed(o, active)
    <2>1. p = [o EXCEPT !.confirmed = TRUE, !.grace = FALSE, !.dispatched = TRUE,
                        !.pending = FALSE]
      BY <1>1 DEF Reviewed
    <2> QED
      BY <1>1, <2>1 DEF Operations
  <1>2. CASE ~Observed(o, active) /\ StillLocal(o, loading)
    <2>1. p = [o EXCEPT !.confirmed = FALSE, !.grace = FALSE]
      BY <1>2 DEF Reviewed
    <2> QED
      BY <1>2, <2>1 DEF Operations
  <1>3. CASE ~Observed(o, active) /\ ~StillLocal(o, loading)
    <2>1. p = [o EXCEPT !.confirmed = FALSE, !.dispatched = FALSE]
      BY <1>3 DEF Reviewed
    <2> QED
      BY <1>3, <2>1 DEF Operations
  <1> QED
    BY <1>1, <1>2, <1>3

\* The places of the attempts in their new order, and what is made of the owner.
NewPlaces(ops, O, local, waiting, seen) ==
    First(ops, O, seen) \o InOrder(O \ ToSet(First(ops, O, seen)), Len(ops))
        \o InOrder(local, Len(ops)) \o InOrder(waiting, Len(ops))

LEMMA NewPlacesOnce ==
    ASSUME NEW reqs, NEW seen, Lists(seen, reqs), NEW ops, Len(ops) \in Nat,
           NEW O \in SUBSET (1..Len(ops)), NEW local \in SUBSET (1..Len(ops)),
           NEW waiting \in SUBSET (1..Len(ops)),
           O \cap local = {}, O \cap waiting = {}, local \cap waiting = {}
    PROVE  OnceEach(NewPlaces(ops, O, local, waiting, seen), O \cup local \cup waiting)
  <1> DEFINE F == First(ops, O, seen)
             rest == O \ ToSet(F)
             a == InOrder(rest, Len(ops))
             b == InOrder(local, Len(ops))
             c == InOrder(waiting, Len(ops))
  <1>1. OnceEach(F, ToSet(F)) /\ ToSet(F) \subseteq O
    BY FirstOnce
  <1>2. NewPlaces(ops, O, local, waiting, seen) = ((F \o a) \o b) \o c
    BY DEF NewPlaces
  <1> HIDE DEF F
  <1>3. OnceEach(a, rest) /\ OnceEach(b, local) /\ OnceEach(c, waiting)
    <2>1. rest \in SUBSET (1..Len(ops))
      <3>1. rest \subseteq O
        OBVIOUS
      <3> HIDE DEF rest
      <3> QED
        BY <3>1, Zenon
    <2> HIDE DEF rest
    <2> QED
      BY <2>1, InOrderOnce
  <1> HIDE DEF a, b, c
  <1>4. OnceEach(F \o a, O)
    <2>1. ToSet(F) \cap rest = {} /\ ToSet(F) \cup rest = O
      BY <1>1
    <2> HIDE DEF rest
    <2> QED
      BY <1>1, <1>3, <2>1, OnceBoth
  <1>5. OnceEach((F \o a) \o b, O \cup local)
    BY <1>3, <1>4, OnceBoth
  <1>6. (O \cup local) \cap waiting = {}
    OBVIOUS
  <1>7. OnceEach(((F \o a) \o b) \o c, O \cup local \cup waiting)
    BY <1>3, <1>5, <1>6, OnceBoth, Zenon
  <1> QED
    BY <1>2, <1>7

-----------------------------------------------------------------------------
(* No attempt is left of a request that has ended: what has the latest      *)
(* request for its album is observed.                                      *)

Unended(d, seen) ==
    \A r \in 1..Len(seen) : IsOver(r, seen) => AttemptPlaces(d, r) = {}

LEMMA UnendedObserved ==
    ASSUME NEW reqs, NEW seen, Lists(seen, reqs), NEW d, Unended(d, seen),
           NEW i \in 1..Len(d.operations), d.operations[i].request \in Latest(reqs)
    PROVE  Observed(d.operations[i], Actives(seen))
  <1> DEFINE r == d.operations[i].request
  <1>1. r \in Latest(seen) /\ r \in 1..Len(seen)
    BY SameLatest
  <1>2. i \in AttemptPlaces(d, r)
    BY DEF AttemptPlaces
  <1> HIDE DEF r
  <1>3. r \in Actives(seen)
    BY <1>1, <1>2 DEF Unended, IsOver, Actives
  <1> QED
    BY <1>3 DEF Observed, r

LEMMA AdoptsUnended ==
    ASSUME NEW reqs, NEW top, NEW seen, Lists(seen, reqs), NEW d, Unended(d, seen),
           NEW e, Adopts(d, e, reqs, top, Actives(seen))
    PROVE  Unended(e, seen)
  <1> SUFFICES ASSUME NEW r \in 1..Len(seen), IsOver(r, seen), NEW j \in AttemptPlaces(e, r)
               PROVE  FALSE
    BY DEF Unended
  <1>1. Sane(e, reqs, top) /\ Moves(d, e, Actives(seen))
    BY DEF Adopts
  <1>2. r \in RequestIds /\ r \notin Actives(seen)
    BY SameLatest DEF IsOver, Actives
  <1>3. j \in 1..Len(e.operations) /\ e.operations[j].request = r
    BY <1>1, <1>2, NamedAlbum
  <1>4. PICK i \in 1..Len(d.operations) : d.operations[i].request = r
    BY <1>1, <1>2, <1>3 DEF Moves
  <1>5. i \in AttemptPlaces(d, r)
    BY <1>4 DEF AttemptPlaces
  <1> QED
    BY <1>5 DEF Unended

-----------------------------------------------------------------------------
(* The order of the attempts after a list.                                 *)

\* The owner with its attempts at "places", reviewed.
Ordered(d, e, places, active, loading, O) ==
    \E down, fail \in SUBSET Albums :
        e = [d EXCEPT
               !.operations = [n \in 1..Len(places) |->
                                   Reviewed(d.operations[places[n]], active, loading)],
               !.inflight = IF \E i \in O : d.operations[i].id = @ THEN None ELSE @,
               !.downloaded = down, !.failed = fail]

LEMMA OrderedSane ==
    ASSUME NEW reqs, NEW top, NEW d, Sane(d, reqs, top), NEW seen, Lists(seen, reqs),
           Unended(d, seen), NEW loading, NEW P \in SUBSET (1..Len(d.operations)),
           NEW places, OnceEach(places, P), NEW O,
           O = {i \in 1..Len(d.operations) : Observed(d.operations[i], Actives(seen))},
           NEW e, Ordered(d, e, places, Actives(seen), loading, O)
    PROVE  Sane(e, reqs, top) /\ Kept(d, e) /\ e.exchange = d.exchange
  <1> DEFINE ops == d.operations
             A == Actives(seen)
             q == [n \in 1..Len(places) |-> Reviewed(ops[places[n]], A, loading)]
             held == IF \E i \in O : ops[i].id = d.inflight THEN None ELSE d.inflight
  <1>0. /\ d \in Owners /\ Distinct(d, top) /\ Locked(d)
        /\ \A i \in 1..Len(ops) : ops[i] \in Operations
        /\ d.inflight \in AttemptIds \cup {None}
    BY SaneParts, OwnerFields
  <1>1. PICK down \in SUBSET Albums, fail \in SUBSET Albums :
           e = [d EXCEPT !.operations = q, !.inflight = held, !.downloaded = down,
                         !.failed = fail]
    BY DEF Ordered
  <1>2. /\ Len(places) \in Nat /\ \A n \in 1..Len(places) : places[n] \in 1..Len(ops)
        /\ \A m, n \in 1..Len(places) : places[m] = places[n] => m = n
    BY DEF OnceEach
  <1>3. \A n \in 1..Len(places) :
           /\ q[n] \in Operations
           /\ q[n].id = ops[places[n]].id /\ q[n].album = ops[places[n]].album
           /\ q[n].request = ops[places[n]].request
           /\ q[n].pending => /\ ops[places[n]].pending
                              /\ ~Observed(ops[places[n]], A)
           /\ Observed(ops[places[n]], A) => q[n].dispatched /\ q[n].confirmed
    <2> TAKE n \in 1..Len(places)
    <2> DEFINE o == ops[places[n]]
               p == q[n]
    <2>1. o \in Operations
      BY <1>0, <1>2
    <2>2. p = Reviewed(o, A, loading)
      OBVIOUS
    <2> HIDE DEF o, p
    <2>3. /\ p \in Operations /\ p.id = o.id /\ p.album = o.album /\ p.request = o.request
          /\ p.pending => o.pending /\ ~Observed(o, A)
          /\ Observed(o, A) => p.dispatched /\ p.confirmed
      BY <2>1, <2>2, ReviewedFields
    <2> QED
      BY <2>3 DEF o, p
  <1>4. q = [n \in 1..Len(places) |-> q[n]]
    OBVIOUS
  <1> HIDE DEF q, A
  <1>5. q \in Seq(Operations) /\ Len(q) = Len(places)
    <2>1. \A n \in 1..Len(places) : q[n] \in Operations
      BY <1>3
    <2> QED
      BY <1>2, <1>4, <2>1, SeqMade
  <1>6. held \in AttemptIds \cup {None}
    BY <1>0
  <1> HIDE DEF held
  <1>7. /\ e \in Owners /\ e.operations = q /\ e.exchange = d.exchange /\ e.inflight = held
    BY <1>0, <1>1, <1>5, <1>6 DEF Owners
  <1> HIDE DEF ops
  <1>8. Draws(q, ops, places) /\ Apart(q, places)
    BY <1>2, <1>3, <1>5 DEF Draws, Apart
  <1>9. Settled(q, reqs)
    <2> SUFFICES ASSUME NEW n \in 1..Len(q), q[n].request \in Latest(reqs)
                 PROVE  q[n].dispatched /\ q[n].confirmed
      BY DEF Settled
    <2>1. /\ n \in 1..Len(places) /\ places[n] \in 1..Len(ops)
          /\ ops[places[n]].request \in Latest(reqs)
      BY <1>2, <1>3, <1>5
    <2>2. Observed(ops[places[n]], A)
      BY <2>1, UnendedObserved DEF ops, A
    <2> QED
      BY <1>3, <2>1, <2>2
  <1>10. StillHeld(d, e)
    <2>1. CASE \E i \in O : ops[i].id = d.inflight
      <3>1. held = None
        BY <2>1 DEF held
      <3>2. PICK i \in O : ops[i].id = d.inflight
        BY <2>1
      <3>3. i \in 1..Len(ops) /\ Observed(ops[i], A)
        BY DEF ops, A
      <3>4. ASSUME NEW n \in 1..Len(q), q[n].pending PROVE FALSE
        <4>1. /\ places[n] \in 1..Len(ops) /\ ops[places[n]].pending
              /\ ~Observed(ops[places[n]], A)
          BY <1>2, <1>3, <1>5, <3>4
        <4>2. ops[places[n]].id = d.inflight
          BY <1>0, <4>1 DEF Locked, ops
        <4>3. places[n] = i
          BY <1>0, <3>2, <3>3, <4>1, <4>2 DEF Distinct, ops
        <4> QED
          BY <3>3, <4>1, <4>3
      <3> QED
        BY <1>7, <3>1, <3>4 DEF StillHeld
    <2>2. CASE ~ \E i \in O : ops[i].id = d.inflight
      <3>1. held = d.inflight
        BY <2>2 DEF held
      <3> QED
        BY <1>7, <3>1 DEF StillHeld
    <2> QED
      BY <2>1, <2>2
  <1>11. Sane(e, reqs, top) /\ Kept(d, e)
    BY <1>7, <1>8, <1>9, <1>10, Redrawn DEF ops
  <1> QED
    BY <1>7, <1>11

LEMMA SortWorks ==
    ASSUME NEW reqs, NEW top, NEW d, Sane(d, reqs, top), NEW seen, Lists(seen, reqs),
           Unended(d, seen), NEW loading, NEW e, e = Sort(d, seen, loading)
    PROVE  Works(d, e, reqs, top) /\ e.exchange = d.exchange
  <1> DEFINE order == ActiveRequests(seen)
             active == ToSet(order)
             ops == d.operations
             all == 1..Len(ops)
             observed == {i \in all : Observed(ops[i], active)}
             local == {i \in all \ observed : StillLocal(ops[i], loading)}
             waiting == {i \in all \ (observed \cup local) : Unposted(ops[i])}
             lost == {ops[i].album : i \in all \ (observed \cup local \cup waiting)}
             places == NewPlaces(ops, observed, local, waiting, seen)
             c == [d EXCEPT
                     !.operations = [n \in 1..Len(places) |->
                                         Reviewed(ops[places[n]], active, loading)],
                     !.inflight = IF \E i \in observed : ops[i].id = @ THEN None ELSE @,
                     !.downloaded = @ \ lost,
                     !.failed = @ \cup lost]
  <1>1. e = Rebuild(c)
    BY DEF Sort, NewPlaces, First, AskedFor, ForAlbum
  <1>2. active = Actives(seen)
    BY ActiveRequestsOnce
  <1>3. /\ observed \in SUBSET all /\ local \in SUBSET all /\ waiting \in SUBSET all
        /\ observed \cap local = {} /\ observed \cap waiting = {} /\ local \cap waiting = {}
    OBVIOUS
  <1>4. d \in Owners /\ Len(ops) \in Nat /\ \A i \in all : ops[i].album \in Albums
    BY SaneParts, OwnerFields, OperationsTyped
  <1>5. lost \in SUBSET Albums
    BY <1>4
  <1>6. observed = {i \in 1..Len(ops) : Observed(ops[i], Actives(seen))}
    BY <1>2
  <1> HIDE DEF active, lost, observed, local, waiting
  <1>7. OnceEach(places, observed \cup local \cup waiting)
    BY <1>3, <1>4, NewPlacesOnce
  <1> HIDE DEF places
  <1>8. Ordered(d, c, places, Actives(seen), loading, observed)
    <2> DEFINE down == d.downloaded \ lost
               fail == d.failed \cup lost
    <2>1. down \in SUBSET Albums /\ fail \in SUBSET Albums
      BY <1>4, <1>5 DEF Owners
    <2>2. c = [d EXCEPT
                 !.operations = [n \in 1..Len(places) |->
                                     Reviewed(ops[places[n]], active, loading)],
                 !.inflight = IF \E i \in observed : ops[i].id = @ THEN None ELSE @,
                 !.downloaded = down, !.failed = fail]
      OBVIOUS
    <2> HIDE DEF c, down, fail
    <2> QED
      BY <1>2, <2>1, <2>2 DEF Ordered
  <1> HIDE DEF c
  <1>9. Sane(c, reqs, top) /\ Kept(d, c) /\ c.exchange = d.exchange
    <2> DEFINE P == observed \cup local \cup waiting
    <2>1. P \in SUBSET (1..Len(ops))
      BY <1>3
    <2> HIDE DEF P
    <2>2. OnceEach(places, P)
      BY <1>7 DEF P
    <2> QED
      BY <1>6, <1>8, <2>1, <2>2, OrderedSane
  <1>10. Sane(e, reqs, top) /\ Kept(c, e) /\ e.exchange = c.exchange
    BY <1>1, <1>9, RebuildSane
  <1>11. Kept(d, e) /\ e.exchange = d.exchange
    BY <1>9, <1>10, KeptTwice
  <1> QED
    BY <1>10, <1>11 DEF Works, Sent

-----------------------------------------------------------------------------
(* The answer to a list.                                                   *)

LEMMA StartupWorks ==
    ASSUME NEW reqs, NEW top, Tops(top), NEW d, Sane(d, reqs, top), Carried(d, reqs),
           NEW seen, Lists(seen, reqs), Unended(d, seen), NEW loading,
           NEW starts \in Outcomes, NEW e, e = ReconcileStartup(d, seen, loading, starts)
    PROVE  Sane(e, reqs, top) /\ Sent(d, e, reqs)
  <1> DEFINE a == AdoptAll(d, seen)
             b == Sort(a, seen, loading)
             A == Actives(seen)
  <1>1. Adopts(d, a, reqs, top, A)
    BY AdoptAllWorks
  <1>2. e = b \/ e = Dispatch(b, starts)
    BY DEF ReconcileStartup
  <1> HIDE DEF a
  <1>3. Sane(a, reqs, top) /\ Moves(d, a, A) /\ a.exchange = d.exchange
    BY <1>1 DEF Adopts
  <1>4. Works(a, b, reqs, top) /\ b.exchange = a.exchange
    <2>1. Unended(a, seen)
      BY <1>1, AdoptsUnended
    <2> HIDE DEF A
    <2> QED
      BY <1>3, <2>1, SortWorks
  <1> HIDE DEF b
  <1>5. Works(b, e, reqs, top)
    <2>1. Sane(b, reqs, top)
      BY <1>4 DEF Works
    <2> QED
      BY <1>2, <2>1, DispatchWorks, WorksItself
  <1>6. Works(a, e, reqs, top)
    BY <1>4, <1>5, WorksTwice
  <1>7. Sent(d, e, reqs)
    <2>1. CASE e.exchange = a.exchange
      BY <1>3, <2>1 DEF Sent
    <2>2. CASE e.exchange # a.exchange
      <3>1. a.exchange = None /\ IsPost(e.exchange)
        BY <1>6, <2>2 DEF Works, Sent
      <3>2. PICK i \in 1..Len(a.operations) :
               /\ a.operations[i].id = e.exchange.id
               /\ a.operations[i].request \notin Latest(reqs)
        BY <1>6, <2>2 DEF Works, Sent
      <3>3. a.operations[i].request \notin A
        BY <3>2, SameLatest DEF Actives
      <3>4. PICK k \in 1..Len(d.operations) :
               /\ a.operations[i].id = d.operations[k].id
               /\ a.operations[i].request = d.operations[k].request
        BY <1>3, <3>3 DEF Moves
      <3>5. d.operations[k].id = e.exchange.id /\ d.operations[k].request \notin Latest(reqs)
        BY <3>2, <3>4
      <3> QED
        BY <1>3, <3>1, <3>5 DEF Sent
    <2> QED
      BY <2>1, <2>2
  <1> QED
    BY <1>6, <1>7 DEF Works

\* The exchange is over, and the dispatcher is free.
Freed(d, e) == e = [d EXCEPT !.exchange = None, !.inflight = None]

LEMMA FreedSane ==
    ASSUME NEW reqs, NEW top, NEW d, Sane(d, reqs, top), NEW e, Freed(d, e),
           \A i \in 1..Len(d.operations) : ~d.operations[i].pending
    PROVE  /\ Sane(e, reqs, top) /\ Kept(d, e) /\ e.operations = d.operations
           /\ e.exchange = None
  <1>1. /\ d \in Owners /\ Distinct(d, top) /\ Owned(d, reqs)
    BY SaneParts
  <1>2. /\ e \in Owners /\ e.operations = d.operations /\ e.exchange = None
        /\ e.inflight = None
    BY <1>1 DEF Freed, Owners
  <1>3. Distinct(e, top) /\ Owned(e, reqs)
    BY <1>1, <1>2 DEF Distinct, Owned
  <1>4. Locked(e) /\ Posting(e, reqs, top)
    BY <1>2 DEF Locked, Posting, IsPost
  <1>5. Kept(d, e)
    BY <1>2 DEF Kept
  <1> QED
    BY <1>2, <1>3, <1>4, <1>5 DEF Sane

\* Without a POST in flight the dispatcher is free.
LEMMA NoPostNoneHeld ==
    ASSUME NEW reqs, NEW top, NEW d, Sane(d, reqs, top), ~IsPost(d.exchange)
    PROVE  /\ d.inflight = None
           /\ \A i \in 1..Len(d.operations) : ~d.operations[i].pending
           /\ \A e : e = [d EXCEPT !.exchange = None] => Freed(d, e)
  <1>1. d \in Owners /\ Locked(d) /\ \A i \in 1..Len(d.operations) :
                                         d.operations[i] \in Operations
    BY SaneParts, OwnerFields
  <1>2. d.inflight = None
    BY <1>1 DEF Locked
  <1>3. ASSUME NEW i \in 1..Len(d.operations), d.operations[i].pending PROVE FALSE
    <2>1. d.operations[i].id = None
      BY <1>1, <1>2, <1>3 DEF Locked
    <2>2. d.operations[i].id \in Ids
      BY <1>1, OperationFields
    <2> QED
      BY <2>1, <2>2, IdsApart
  <1>4. \A e : e = [d EXCEPT !.exchange = None] => Freed(d, e)
    BY <1>1, <1>2 DEF Freed, Owners
  <1> QED
    BY <1>2, <1>3, <1>4

\* The two halves of finish_durable_requests: all albums are looked up, then the
\* list is settled.
Looks(c, d, have, loading, waiting, starts) ==
    d = Reconcile([c EXCEPT !.exchange = None], Albums, have, loading, waiting, starts)

Settles(d, e, seen, apply, starts) ==
    e = ReconcileStartup(EndRequests(d, seen, starts), seen, apply, starts)

\* The exchange is free, or of a POST for an attempt there was and that was not
\* accepted.
SentForFree(c, e, reqs) ==
    e.exchange # None =>
        /\ IsPost(e.exchange)
        /\ \E i \in 1..Len(c.operations) : /\ c.operations[i].id = e.exchange.id
                                           /\ c.operations[i].request \notin Latest(reqs)

LEMMA ListWorks ==
    ASSUME NEW reqs, NEW top, Tops(top), NEW c, Sane(c, reqs, top), ~IsPost(c.exchange),
           NEW seen, Lists(seen, reqs), NEW have, NEW loading, NEW waiting, NEW apply,
           NEW starts \in Outcomes, NEW d, Looks(c, d, have, loading, waiting, starts),
           NEW e, Settles(d, e, seen, apply, starts)
    PROVE  Sane(e, reqs, top) /\ SentForFree(c, e, reqs)
  <1> DEFINE b == [c EXCEPT !.exchange = None]
             f == EndRequests(d, seen, starts)
  <1>1. Sane(b, reqs, top) /\ b.operations = c.operations /\ b.exchange = None
    <2>1. Freed(c, b) /\ \A i \in 1..Len(c.operations) : ~c.operations[i].pending
      BY NoPostNoneHeld
    <2> HIDE DEF b
    <2> QED
      BY <2>1, FreedSane
  <1>2. d = Reconcile(b, Albums, have, loading, waiting, starts)
    BY DEF Looks
  <1> HIDE DEF b
  <1>3. Works(b, d, reqs, top) /\ Carried(d, reqs)
    <2>1. Albums \in SUBSET Albums
      OBVIOUS
    <2> QED
      BY <1>1, <1>2, <2>1, ReconcileWorks
  <1>4. Works(d, f, reqs, top) /\ Carried(f, reqs) /\ Unended(f, seen)
    <2>1. Sane(d, reqs, top)
      BY <1>3 DEF Works
    <2> QED
      BY <1>3, <2>1, EndRequestsWorks DEF Carries, Unended
  <1>5. e = ReconcileStartup(f, seen, apply, starts)
    BY DEF Settles
  <1> HIDE DEF f
  <1>6. Sane(e, reqs, top) /\ Sent(f, e, reqs)
    BY <1>4, <1>5, StartupWorks DEF Works
  <1>7. Works(b, f, reqs, top)
    BY <1>3, <1>4, WorksTwice
  <1>8. Sent(b, e, reqs)
    BY <1>6, <1>7, SentTwice DEF Works
  <1> QED
    BY <1>1, <1>6, <1>8 DEF Sent, SentForFree

-----------------------------------------------------------------------------
(* The answer to a POST.                                                   *)

\* The answer names a request for the album of the POST, if it names one.
Fits(answer, album, reqs) ==
    /\ answer \in Answers
    /\ answer.request # None => /\ answer.request \in 1..Len(reqs)
                                /\ reqs[answer.request].album = album

\* An attempt that is accepted.
TakenAs(o, answer) ==
    [o EXCEPT !.pending = FALSE, !.dispatched = TRUE, !.confirmed = TRUE, !.grace = TRUE,
              !.request = IF answer.request = None THEN o.request ELSE answer.request]

LEMMA TakenFields ==
    ASSUME NEW o \in Operations, NEW answer \in Answers, NEW p, p = TakenAs(o, answer)
    PROVE  /\ p \in Operations /\ p.id = o.id /\ p.album = o.album
           /\ ~p.pending /\ p.dispatched /\ p.confirmed
           /\ p.request = IF answer.request = None THEN o.request ELSE answer.request
  <1> DEFINE r == IF answer.request = None THEN o.request ELSE answer.request
  <1>1. answer.request \in RequestIds \cup {None}
    BY DEF Answers, Accepted, Refused
  <1>2. r \in RequestIds \cup {None}
    BY <1>1, OperationFields
  <1>3. p = [o EXCEPT !.pending = FALSE, !.dispatched = TRUE, !.confirmed = TRUE,
                      !.grace = TRUE, !.request = r]
    BY DEF TakenAs
  <1> HIDE DEF r
  <1>4. /\ p \in Operations /\ p.id = o.id /\ p.album = o.album
        /\ ~p.pending /\ p.dispatched /\ p.confirmed /\ p.request = r
    BY <1>2, <1>3 DEF Operations
  <1> QED
    BY <1>4 DEF r

\* Only the attempt of the POST in flight holds the dispatcher.
LEMMA PostHolds ==
    ASSUME NEW reqs, NEW top, NEW c, Sane(c, reqs, top), IsPost(c.exchange)
    PROVE  /\ c.inflight \in {None, c.exchange.id}
           /\ \A i \in 1..Len(c.operations) :
                 c.operations[i].pending => c.operations[i].id = c.exchange.id
           /\ \A i \in 1..Len(c.operations) :
                 c.operations[i].id = c.exchange.id =>
                     c.operations[i].album = c.exchange.album
  <1>1. /\ c \in Owners /\ Locked(c) /\ Posting(c, reqs, top)
        /\ \A i \in 1..Len(c.operations) : c.operations[i] \in Operations
    BY SaneParts, OwnerFields
  <1>2. c.inflight \in {None, c.exchange.id}
    BY <1>1 DEF Locked
  <1>3. ASSUME NEW i \in 1..Len(c.operations), c.operations[i].pending
        PROVE  c.operations[i].id = c.exchange.id
    <2>1. c.operations[i].id = c.inflight
      BY <1>1, <1>3 DEF Locked
    <2>2. c.operations[i].id \in Ids
      BY <1>1, OperationFields
    <2> QED
      BY <1>2, <2>1, <2>2, IdsApart
  <1> QED
    BY <1>1, <1>2, <1>3 DEF Posting

\* The attempt of the POST is accepted, the others stay.
Takes(c, e, answer) ==
    \E q, fail : /\ fail \in SUBSET Albums
                 /\ q = [i \in 1..Len(c.operations) |->
                            IF c.operations[i].id # c.exchange.id THEN c.operations[i]
                            ELSE TakenAs(c.operations[i], answer)]
                 /\ e = [c EXCEPT !.operations = q, !.inflight = None,
                                  !.exchange = None, !.failed = fail]

OthersStay(c, e) ==
    /\ Len(e.operations) = Len(c.operations)
    /\ \A i \in 1..Len(c.operations) :
          /\ e.operations[i].id = c.operations[i].id
          /\ c.operations[i].id # c.exchange.id => e.operations[i] = c.operations[i]

LEMMA TakesSane ==
    ASSUME NEW reqs, NEW top, NEW c, Sane(c, reqs, top), IsPost(c.exchange), NEW answer,
           Fits(answer, c.exchange.album, reqs), NEW e, Takes(c, e, answer)
    PROVE  Sane(e, reqs, top) /\ e.exchange = None /\ OthersStay(c, e)
  <1> DEFINE ops == c.operations
             name == c.exchange.id
  <1>1. PICK q, fail : /\ fail \in SUBSET Albums
                       /\ q = [i \in 1..Len(ops) |-> IF ops[i].id # name THEN ops[i]
                                                     ELSE TakenAs(ops[i], answer)]
                       /\ e = [c EXCEPT !.operations = q, !.inflight = None,
                                        !.exchange = None, !.failed = fail]
    BY DEF Takes
  <1>2. /\ c \in Owners /\ Distinct(c, top) /\ Owned(c, reqs)
        /\ ops \in Seq(Operations) /\ Len(ops) \in Nat
        /\ \A i \in 1..Len(ops) : ops[i] \in Operations
    BY SaneParts, OwnerFields
  <1>3. \A i \in 1..Len(ops) :
           /\ q[i] \in Operations /\ q[i].id = ops[i].id /\ q[i].album = ops[i].album
           /\ ~q[i].pending
           /\ ops[i].id # name => q[i] = ops[i]
           /\ ops[i].id = name =>
                 /\ q[i].dispatched /\ q[i].confirmed /\ ops[i].album = c.exchange.album
                 /\ q[i].request = IF answer.request = None THEN ops[i].request
                                   ELSE answer.request
    <2> TAKE i \in 1..Len(ops)
    <2>1. ops[i] \in Operations
      BY <1>2
    <2>2. CASE ops[i].id # name
      <3>1. q[i] = ops[i]
        BY <1>1, <2>2
      <3>2. ~ops[i].pending
        BY <2>2, PostHolds
      <3> QED
        BY <2>1, <2>2, <3>1, <3>2
    <2>3. CASE ops[i].id = name
      <3> DEFINE p == q[i]
      <3>1. p = TakenAs(ops[i], answer)
        BY <1>1, <2>3
      <3> HIDE DEF p
      <3>2. answer \in Answers
        BY DEF Fits
      <3>3. /\ p \in Operations /\ p.id = ops[i].id /\ p.album = ops[i].album
            /\ ~p.pending /\ p.dispatched /\ p.confirmed
            /\ p.request = IF answer.request = None THEN ops[i].request
                           ELSE answer.request
        BY <2>1, <3>1, <3>2, TakenFields
      <3>4. ops[i].album = c.exchange.album
        BY <2>3, PostHolds
      <3> QED
        BY <2>3, <3>3, <3>4 DEF p
    <2> QED
      BY <2>2, <2>3
  <1>4. q \in Seq(Operations) /\ Len(q) = Len(ops)
    <2>1. q = [i \in 1..Len(ops) |-> q[i]]
      BY <1>1
    <2>2. \A i \in 1..Len(ops) : q[i] \in Operations
      BY <1>3
    <2> QED
      BY <1>2, <2>1, <2>2, SeqMade
  <1>5. /\ e \in Owners /\ e.operations = q /\ e.exchange = None /\ e.inflight = None
    <2>1. fail \in SUBSET Albums /\ e = [c EXCEPT !.operations = q, !.inflight = None,
                                                  !.exchange = None, !.failed = fail]
      BY <1>1
    <2> QED
      BY <1>2, <1>4, <2>1 DEF Owners
  <1> HIDE DEF ops, name
  <1>6. Distinct(e, top)
    <2>1. \A i, j \in 1..Len(ops) :
              ops[i].id = ops[j].id \/ ops[i].album = ops[j].album => i = j
      BY <1>2 DEF Distinct, ops
    <2>2. \A i \in 1..Len(ops) : ops[i].id <= top
      BY <1>2 DEF Distinct, ops
    <2>3. \A i \in 1..Len(ops) : q[i].id = ops[i].id /\ q[i].album = ops[i].album
      BY <1>3
    <2> QED
      BY <1>4, <1>5, <2>1, <2>2, <2>3 DEF Distinct
  <1>7. Owned(e, reqs)
    <2> SUFFICES ASSUME NEW i \in 1..Len(ops)
                 PROVE  /\ q[i].request # None => /\ q[i].request \in 1..Len(reqs)
                                                  /\ reqs[q[i].request].album = q[i].album
                        /\ q[i].request \in Latest(reqs) => q[i].dispatched /\ q[i].confirmed
                        /\ q[i].id \in RequestIds => /\ q[i].request = q[i].id
                                                     /\ q[i].id \in Latest(reqs)
      BY <1>4, <1>5 DEF Owned
    <2>1. /\ ops[i].request # None => /\ ops[i].request \in 1..Len(reqs)
                                      /\ reqs[ops[i].request].album = ops[i].album
          /\ ops[i].request \in Latest(reqs) => ops[i].dispatched /\ ops[i].confirmed
          /\ ops[i].id \in RequestIds => /\ ops[i].request = ops[i].id
                                         /\ ops[i].id \in Latest(reqs)
      BY <1>2 DEF Owned, ops
    <2>2. CASE ops[i].id # name
      BY <1>3, <2>1, <2>2
    <2>3. CASE ops[i].id = name
      <3>1. q[i].id \notin RequestIds
        BY <1>3, <2>3, PostName, IdsApart DEF name
      <3>2. CASE answer.request = None
        BY <1>3, <2>1, <2>3, <3>1, <3>2
      <3>3. CASE answer.request # None
        BY <1>3, <2>3, <3>1, <3>3 DEF Fits
      <3> QED
        BY <3>2, <3>3
    <2> QED
      BY <2>2, <2>3
  <1>8. Locked(e) /\ Posting(e, reqs, top)
    BY <1>3, <1>4, <1>5 DEF Locked, Posting, IsPost
  <1> QED
    BY <1>3, <1>4, <1>5, <1>6, <1>7, <1>8 DEF Sane, OthersStay, ops, name

\* The attempt is given up: dropping it and freeing the dispatcher go together.
LEMMA RefusedSane ==
    ASSUME NEW reqs, NEW top, NEW c, Sane(c, reqs, top), IsPost(c.exchange), NEW d,
           Freed(c, d), NEW b, b = Without(d, c.exchange.album)
    PROVE  Sane(b, reqs, top) /\ Kept(c, b) /\ b.exchange = None
  <1> DEFINE album == c.exchange.album
             x == Without(c, album)
             S == (1..Len(c.operations)) \ Places(c, album)
             q == Only(c, S)
             rebuilt == [i \in 1..Len(q) |->
                            [q[i] EXCEPT !.dispatched = IF i = 1 THEN q[i].dispatched
                                                        ELSE q[i].confirmed]]
  <1>1. c \in Owners
    BY SaneParts
  <1>2. d.operations = c.operations /\ d.downloaded = c.downloaded
    BY <1>1 DEF Freed, Owners
  <1>3. Places(d, album) = Places(c, album) /\ Only(d, S) = q
    BY <1>2 DEF Places, Only
  <1>4. x = [c EXCEPT !.operations = rebuilt, !.downloaded = c.downloaded \ AlbumsOf(q)]
    BY <1>1 DEF Without, Rebuild, Owners
  <1>5. b = [d EXCEPT !.operations = rebuilt, !.downloaded = c.downloaded \ AlbumsOf(q)]
    <2>1. b = Rebuild([d EXCEPT !.operations = q])
      BY <1>2, <1>3 DEF Without
    <2> HIDE DEF q
    <2>2. d \in Owners
      BY <1>1 DEF Freed, Owners
    <2> QED
      BY <1>2, <2>1, <2>2 DEF Rebuild, Owners
  <1> HIDE DEF rebuilt, q
  <1>6. Freed(x, b)
    BY <1>1, <1>4, <1>5 DEF Freed, Owners
  <1>7. Works(c, x, reqs, top) /\ NoneLeft(x, album) /\ x.exchange = c.exchange
    BY WithoutWorks
  <1> HIDE DEF x
  <1>8. \A i \in 1..Len(x.operations) : ~x.operations[i].pending
    <2> SUFFICES ASSUME NEW i \in 1..Len(x.operations), x.operations[i].pending
                 PROVE  FALSE
      OBVIOUS
    <2>1. Sane(x, reqs, top) /\ IsPost(x.exchange)
      BY <1>7 DEF Works
    <2>2. x.operations[i].album = album
      BY <1>7, <2>1, PostHolds
    <2> QED
      BY <1>7, <2>2 DEF NoneLeft
  <1>9. Sane(b, reqs, top) /\ Kept(x, b) /\ b.exchange = None
    BY <1>6, <1>7, <1>8, FreedSane DEF Works
  <1> QED
    BY <1>7, <1>9, KeptTwice DEF Works

-----------------------------------------------------------------------------
(* What the owner becomes.                                                 *)

LEMMA OwnerIs ==
    /\ owner.operations = operations /\ owner.inflight = inflight
    /\ owner.shadows = shadows /\ owner.downloaded = downloaded
    /\ owner.failed = failed /\ owner.exchange = exchange
  BY DEF owner

LEMMA BecomesOwner ==
    ASSUME NEW d \in Owners, Becomes(d)
    PROVE  owner' = d
  BY DEF Becomes, owner, Owners

\* A POST that goes out is for an attempt that was there and was not accepted.
SentFrom(reqs) ==
    \/ exchange' = exchange \/ exchange' = None
    \/ /\ IsPost(exchange')
       /\ \E i \in 1..Len(operations) : /\ operations[i].id = exchange'.id
                                        /\ \/ IsPost(exchange) /\ operations[i].id = exchange.id
                                           \/ operations[i].request \notin Latest(reqs)

LEMMA ReleasedFreed ==
    ASSUME NEW reqs, NEW top, Sane(owner, reqs, top), IsPost(exchange)
    PROVE  Freed(owner, Released(exchange.id))
  <1>1. inflight \in {None, exchange.id}
    BY PostHolds, OwnerIs
  <1>2. Released(exchange.id) = [owner EXCEPT !.exchange = None, !.inflight = None]
    <2>1. (IF inflight = exchange.id THEN None ELSE inflight) = None
      BY <1>1
    <2> QED
      BY <2>1, OwnerIs DEF Released
  <1> QED
    BY <1>2 DEF Freed

\* The attempts of d are those of the queue; the answer may have changed the request
\* of the one that was posted.
Stems(d) ==
    \A j \in 1..Len(d.operations) :
        \E i \in 1..Len(operations) :
            /\ d.operations[j].id = operations[i].id
            /\ \/ operations[i].id = exchange.id
               \/ d.operations[j].request = operations[i].request

\* An attempt that is accepted is kept under the name of its request, and one that
\* is refused is dropped.
AnswerTaken(e, answer, starts) ==
    IF answer.kind = "accepted"
    THEN \E taken : Takes(owner, taken, answer) /\ e = Rebuild(taken)
    ELSE e = Fail(Released(exchange.id), exchange.album, starts)

LEMMA AnsweredWorks ==
    ASSUME NEW reqs, NEW top, Sane(owner, reqs, top), IsPost(exchange), NEW answer,
           Fits(answer, exchange.album, reqs), NEW starts \in Outcomes, NEW e,
           AnswerTaken(e, answer, starts)
    PROVE  \E b : b.exchange = None /\ Stems(b) /\ Works(b, e, reqs, top)
  <1>0. IsPost(owner.exchange) /\ owner.operations = operations /\ owner.exchange = exchange
    BY OwnerIs
  <1>1. CASE answer.kind = "accepted"
    <2>1. PICK taken : Takes(owner, taken, answer) /\ e = Rebuild(taken)
      BY <1>1 DEF AnswerTaken
    <2>2. Fits(answer, owner.exchange.album, reqs)
      BY <1>0
    <2>3. Sane(taken, reqs, top) /\ taken.exchange = None /\ OthersStay(owner, taken)
      BY <1>0, <2>1, <2>2, TakesSane
    <2>4. Stems(taken)
      <3> SUFFICES ASSUME NEW j \in 1..Len(taken.operations)
                   PROVE  \E i \in 1..Len(operations) :
                             /\ taken.operations[j].id = operations[i].id
                             /\ \/ operations[i].id = exchange.id
                                \/ taken.operations[j].request = operations[i].request
        BY DEF Stems
      <3>1. /\ j \in 1..Len(operations) /\ taken.operations[j].id = operations[j].id
            /\ operations[j].id # exchange.id => taken.operations[j] = operations[j]
        BY <1>0, <2>3 DEF OthersStay
      <3> QED
        BY <3>1
    <2>5. Sane(e, reqs, top) /\ Kept(taken, e) /\ e.exchange = taken.exchange
      BY <2>1, <2>3, RebuildSane
    <2>6. Works(taken, e, reqs, top)
      BY <2>5 DEF Works, Sent
    <2> QED
      BY <2>3, <2>4, <2>6
  <1>2. CASE answer.kind # "accepted"
    <2> DEFINE album == exchange.album
               d == Released(exchange.id)
               b == Without(d, album)
    <2>1. e = Fail(d, album, starts)
      BY <1>2 DEF AnswerTaken
    <2>2. Sane(b, reqs, top) /\ Kept(owner, b) /\ b.exchange = None
      <3>1. Freed(owner, d)
        BY ReleasedFreed
      <3>2. b = Without(d, owner.exchange.album)
        BY <1>0
      <3> HIDE DEF b, d
      <3> QED
        BY <1>0, <3>1, <3>2, RefusedSane
    <2>3. album \in Albums
      BY <1>0, PostName
    <2>4. Works(b, e, reqs, top)
      <3> HIDE DEF album, d
      <3>1. b \in Owners
        BY <2>2 DEF Sane
      <3>2. Ended(d, e, album, starts)
        BY <2>1, <2>3, <3>1, CompleteFailEnd
      <3> QED
        BY <2>2, <3>2, EndedFrom
    <2> HIDE DEF b
    <2>5. Stems(b)
      BY <1>0, <2>2 DEF Kept, Stems
    <2> QED
      BY <2>2, <2>4, <2>5
  <1> QED
    BY <1>1, <1>2

\* resolve_dispatch, with the lookup that follows it.
LEMMA ResolveWorks ==
    ASSUME NEW reqs, NEW top, Sane(owner, reqs, top), IsPost(exchange), NEW answer,
           Fits(answer, exchange.album, reqs), optimistic \in SUBSET Albums,
           NEW starts \in Outcomes, Resolve(exchange.id, exchange.album, answer, starts)
    PROVE  Sane(owner', reqs, top) /\ optimistic' \in SUBSET Albums /\ SentFrom(reqs)
  <1> DEFINE id == exchange.id
             album == exchange.album
             d == Released(id)
  <1>0. IsPost(owner.exchange) /\ owner.operations = operations /\ owner.exchange = exchange
        /\ owner \in Owners
    BY OwnerIs, SaneParts
  <1>1. Freed(owner, d)
    BY ReleasedFreed
  <1>2. album \in Albums
    BY <1>0, PostName
  <1>3. CASE Answered(id) = {}
    <2>1. Becomes(d) /\ optimistic' = optimistic
      BY <1>3 DEF Resolve
    <2>2. \A i \in 1..Len(owner.operations) : ~owner.operations[i].pending
      <3> SUFFICES ASSUME NEW i \in 1..Len(operations), operations[i].pending PROVE FALSE
        BY <1>0
      <3>1. operations[i].id = id
        BY <1>0, PostHolds
      <3> QED
        BY <1>3, <3>1 DEF Answered
    <2> HIDE DEF d
    <2>3. Sane(d, reqs, top) /\ d.exchange = None
      BY <1>1, <2>2, FreedSane
    <2>4. owner' = d
      <3>1. d \in Owners
        BY <2>3 DEF Sane
      <3> QED
        BY <2>1, <3>1, BecomesOwner
    <2>5. exchange' = None
      BY <2>1, <2>3 DEF Becomes
    <2> QED
      BY <2>1, <2>3, <2>4, <2>5 DEF SentFrom
  <1>4. CASE Answered(id) # {}
    <2> DEFINE taken == [d EXCEPT
                   !.operations = [i \in 1..Len(@) |->
                       IF i \notin Answered(id) THEN @[i]
                       ELSE [@[i] EXCEPT !.pending = FALSE, !.dispatched = TRUE,
                                !.confirmed = TRUE, !.grace = TRUE,
                                !.request = IF answer.request = None
                                            THEN operations[i].request
                                            ELSE answer.request]],
                   !.failed = @ \ {album}]
               e == IF answer.kind = "accepted" THEN Rebuild(taken)
                    ELSE Fail(d, album, starts)
               waiting == IF answer.kind = "accepted" THEN optimistic \cup {album}
                          ELSE optimistic \ {album}
               g == Reconcile(e, {album}, files, Loading, waiting, starts)
    <2>1. Becomes(g) /\ optimistic' = waiting
      <3>1. ResolveAttempt(id, album, answer, starts)
        BY <1>4 DEF Resolve
      <3> QED
        BY <3>1 DEF ResolveAttempt
    <2>2. waiting \in SUBSET Albums
      BY <1>2
    <2>3. Takes(owner, taken, answer)
      <3> DEFINE q == [i \in 1..Len(owner.operations) |->
                          IF owner.operations[i].id # owner.exchange.id
                          THEN owner.operations[i]
                          ELSE TakenAs(owner.operations[i], answer)]
                 fail == failed \ {album}
      <3>1. d.operations = operations /\ d.failed = failed
        BY <1>0, <1>1, OwnerIs DEF Freed, Owners
      <3>2. [i \in 1..Len(d.operations) |->
                IF i \notin Answered(id) THEN d.operations[i]
                ELSE [d.operations[i] EXCEPT !.pending = FALSE, !.dispatched = TRUE,
                         !.confirmed = TRUE, !.grace = TRUE,
                         !.request = IF answer.request = None
                                     THEN operations[i].request
                                     ELSE answer.request]] = q
        BY <1>0, <3>1 DEF Answered, TakenAs
      <3> HIDE DEF q, d
      <3>3. taken = [d EXCEPT !.operations = q, !.failed = fail]
        BY <3>1, <3>2
      <3> HIDE DEF taken
      <3>4. taken = [owner EXCEPT !.operations = q, !.inflight = None, !.exchange = None,
                                  !.failed = fail]
        BY <1>0, <1>1, <3>3 DEF Freed, Owners
      <3>5. fail \in SUBSET Albums
        BY <1>0, OwnerIs DEF Owners
      <3> HIDE DEF fail
      <3> QED
        BY <3>4, <3>5 DEF Takes, q
    <2> HIDE DEF taken
    <2>4. AnswerTaken(e, answer, starts)
      BY <2>3 DEF AnswerTaken
    <2> HIDE DEF e, waiting
    <2>5. PICK b : b.exchange = None /\ Stems(b) /\ Works(b, e, reqs, top)
      BY <2>4, AnsweredWorks
    <2>6. Works(e, g, reqs, top)
      <3>1. Sane(e, reqs, top) /\ {album} \in SUBSET Albums
        BY <1>2, <2>5 DEF Works
      <3> DEFINE some == {album}
      <3>2. some \in SUBSET Albums /\ g = Reconcile(e, some, files, Loading, waiting, starts)
        BY <3>1
      <3> HIDE DEF some, g
      <3> QED
        BY <3>1, <3>2, ReconcileWorks
    <2> HIDE DEF g
    <2>7. Works(b, g, reqs, top)
      BY <2>5, <2>6, WorksTwice
    <2>8. owner' = g /\ exchange' = g.exchange
      <3>1. g \in Owners
        BY <2>7 DEF Works, Sane
      <3> QED
        BY <2>1, <3>1, BecomesOwner DEF Becomes
    <2>9. SentFrom(reqs)
      <3>1. CASE exchange' = None
        BY <3>1 DEF SentFrom
      <3>2. CASE exchange' # None
        <4>0. IsPost(exchange')
          BY <2>5, <2>7, <2>8, <3>2 DEF Works, Sent
        <4>1. PICK j \in 1..Len(b.operations) :
                 /\ b.operations[j].id = g.exchange.id
                 /\ b.operations[j].request \notin Latest(reqs)
          BY <2>5, <2>7, <2>8, <3>2 DEF Works, Sent
        <4>2. PICK i \in 1..Len(operations) :
                 /\ b.operations[j].id = operations[i].id
                 /\ \/ operations[i].id = exchange.id
                    \/ b.operations[j].request = operations[i].request
          BY <2>5 DEF Stems
        <4>3. /\ operations[i].id = exchange'.id
              /\ \/ operations[i].id = exchange.id
                 \/ operations[i].request \notin Latest(reqs)
          BY <2>8, <4>1, <4>2
        <4> QED
          BY <4>0, <4>3 DEF SentFrom
      <3> QED
        BY <3>1, <3>2
    <2> QED
      BY <2>1, <2>2, <2>7, <2>8, <2>9 DEF Works
  <1> QED
    BY <1>3, <1>4

-----------------------------------------------------------------------------
(* The inductive invariant.                                                *)

\* The types of what is not the owner's.
Rest ==
    /\ optimistic \in SUBSET Albums
    /\ \/ session = None
       \/ session \in UNION {[S -> Ids \cup {None, Ambiguous}] : S \in SUBSET Albums}
    /\ files \in [Albums -> {"none", "part", "all"}]
    /\ requests \in Seq(Requests) /\ Len(requests) \in 0..MaxRequests
    /\ attempts \in 0..MaxAttempts /\ sessions \in 0..MaxSessions
    /\ faults \in 0..MaxFaults

\* The last name given to an attempt.
Top == MaxRequests + attempts

\* A list that has been served is of the requests there are.
ListFits == IsList(exchange) /\ exchange.answer # None => Lists(exchange.answer, requests)

IInv == Rest /\ Sane(owner, requests, Top) /\ ListFits

\* What AcceptedNeverReposted says of a step.
NeverReposts ==
    Posts => \A i \in 1..Len(operations) :
                operations[i].id = exchange'.id => operations[i].request \notin Latest(requests)

LEMMA Numbers ==
    /\ MaxAttempts \in Nat /\ MaxRequests \in Nat /\ MaxSessions \in Nat /\ MaxFaults \in Nat
    /\ MaxRequests > 0
  BY DownloadAssumption

LEMMA TopIs == ASSUME Rest PROVE Tops(Top)
  BY Numbers DEF Rest, Tops, Top

LEMMA TypeParts == TypeOK <=> owner \in Owners /\ Rest
  <1>1. /\ owner \in Owners <=>
              /\ operations \in Seq(Operations) /\ inflight \in AttemptIds \cup {None}
              /\ shadows \in SUBSET RequestIds /\ downloaded \in SUBSET Albums
              /\ failed \in SUBSET Albums /\ exchange \in Exchanges \cup {None}
    BY DEF owner, Owners
  <1>2. ASSUME requests \in Seq(Requests)
        PROVE  Len(requests) <= MaxRequests <=> Len(requests) \in 0..MaxRequests
    BY <1>2, Numbers
  <1> QED
    BY <1>1, <1>2 DEF TypeOK, Rest

\* A post that is sent is for one attempt, by its name.
LEMMA SentNeverReposts ==
    ASSUME NEW top, Sane(owner, requests, top), SentFrom(requests)
    PROVE  NeverReposts
  <1> SUFFICES ASSUME Posts, NEW i \in 1..Len(operations), operations[i].id = exchange'.id
               PROVE  operations[i].request \notin Latest(requests)
    BY DEF NeverReposts
  <1>1. exchange' # exchange /\ exchange' # None
    BY DEF Posts, IsPost
  <1>2. PICK j \in 1..Len(operations) :
           /\ operations[j].id = exchange'.id
           /\ \/ IsPost(exchange) /\ operations[j].id = exchange.id
              \/ operations[j].request \notin Latest(requests)
    BY <1>1 DEF SentFrom
  <1>3. i = j
    BY <1>2, OwnerIs, SaneParts DEF Distinct
  <1>4. ~(IsPost(exchange) /\ operations[j].id = exchange.id)
    BY <1>2 DEF Posts
  <1> QED
    BY <1>2, <1>3, <1>4

\* The exchange after a step of the owner is no list that was served meanwhile.
LEMMA SentListFits ==
    ASSUME ListFits, requests' = requests, SentFrom(requests)
    PROVE  ListFits'
  <1>1. CASE exchange' = exchange
    BY <1>1 DEF ListFits
  <1>2. CASE exchange' # exchange
    <2>1. exchange' = None \/ IsPost(exchange')
      BY <1>2 DEF SentFrom
    <2>2. ~IsList(exchange')
      BY <2>1 DEF IsPost, IsList
    <2> QED
      BY <2>2 DEF ListFits
  <1> QED
    BY <1>1, <1>2

LEMMA OwnerMoves ==
    ASSUME IInv, Rest', requests' = requests, attempts' = attempts,
           Sane(owner', requests, Top), SentFrom(requests)
    PROVE  IInv' /\ NeverReposts
  <1>1. NeverReposts
    BY SentNeverReposts DEF IInv
  <1>2. ListFits'
    BY SentListFits DEF IInv
  <1>3. Top' = Top
    BY DEF Top
  <1>4. Sane(owner', requests', Top')
    BY <1>3
  <1> QED
    BY <1>1, <1>2, <1>4 DEF IInv

\* A step in which the owner does one of the things above.
LEMMA WorksMoves ==
    ASSUME IInv, Rest', requests' = requests, attempts' = attempts,
           NEW e, Works(owner, e, requests, Top), Becomes(e)
    PROVE  IInv' /\ NeverReposts
  <1>1. Sane(e, requests, Top) /\ Sent(owner, e, requests)
    BY DEF Works
  <1>2. owner' = e
    <2>1. e \in Owners
      BY <1>1, SaneParts
    <2> QED
      BY <2>1, BecomesOwner
  <1>3. exchange' = e.exchange /\ owner.exchange = exchange /\ owner.operations = operations
    BY OwnerIs DEF Becomes
  <1>4. SentFrom(requests)
    BY <1>1, <1>3 DEF Sent, SentFrom
  <1> QED
    BY <1>1, <1>2, <1>4, OwnerMoves

\* A step that leaves the owner alone but for the exchange, which is no POST.
LEMMA QuietMoves ==
    ASSUME IInv, Rest', requests' = requests, attempts' = attempts, Sane(owner', requests, Top),
           ListFits', ~IsPost(exchange')
    PROVE  IInv' /\ NeverReposts
  <1>1. Top' = Top
    BY DEF Top
  <1>2. Sane(owner', requests', Top')
    BY <1>1
  <1> QED
    BY <1>2 DEF IInv, NeverReposts, Posts

-----------------------------------------------------------------------------
(* The initial states.                                                     *)

LEMMA NothingSane ==
    ASSUME NEW d \in Owners, d.operations = << >>, d.inflight = None, d.exchange = None,
           NEW reqs, NEW top
    PROVE  Sane(d, reqs, top)
  BY DEF Sane, Distinct, Owned, Locked, Posting, IsPost

LEMMA ForgottenSane ==
    ASSUME NEW reqs, NEW top, Forgotten
    PROVE  Sane(owner, reqs, top)
  <1>1. owner \in Owners
    <2>1. << >> \in Seq(Operations)
      OBVIOUS
    <2> QED
      BY <2>1 DEF owner, Owners, Forgotten
  <1>2. owner.operations = << >> /\ owner.inflight = None /\ owner.exchange = None
    BY OwnerIs DEF Forgotten
  <1> HIDE DEF owner
  <1> QED
    BY <1>1, <1>2, NothingSane

LEMMA InitIInv == Init => IInv
  <1> SUFFICES ASSUME Init PROVE IInv
    OBVIOUS
  <1>1. Forgotten
    BY DEF Init
  <1>2. Sane(owner, requests, Top)
    BY <1>1, ForgottenSane
  <1>3. requests \in Seq(Requests) /\ Len(requests) \in 0..MaxRequests
    <2> DEFINE k == CHOOSE k \in Albums : TRUE
               r == [album |-> k, state |-> "queued"]
    <2>1. k \in Albums
      BY DownloadAssumption
    <2> HIDE DEF k
    <2>2. r \in Requests
      BY <2>1 DEF Requests, Active
    <2>3. requests = << >> \/ requests = <<r>>
      BY DEF Init, k
    <2> HIDE DEF r
    <2>4. << >> \in Seq(Requests) /\ <<r>> \in Seq(Requests) /\ Len(<<r>>) = 1
      BY <2>2
    <2>5. Len(<< >>) = 0 /\ 0 \in 0..MaxRequests /\ 1 \in 0..MaxRequests
      BY Numbers
    <2>6. CASE requests = << >>
      BY <2>4, <2>5, <2>6
    <2>7. CASE requests = <<r>>
      BY <2>4, <2>5, <2>7
    <2> QED
      BY <2>3, <2>6, <2>7
  <1>4. Rest
    <2>1. optimistic = {} /\ session = None
      BY <1>1 DEF Forgotten
    <2>2. files \in [Albums -> {"none", "part", "all"}]
      BY DEF Init
    <2>3. attempts \in 0..MaxAttempts /\ sessions \in 0..MaxSessions /\ faults \in 0..MaxFaults
      BY Numbers DEF Init
    <2> QED
      BY <1>3, <2>1, <2>2, <2>3 DEF Rest
  <1>5. ListFits
    BY <1>1 DEF Forgotten, ListFits, IsList
  <1> QED
    BY <1>2, <1>4, <1>5 DEF IInv

-----------------------------------------------------------------------------
(* The steps of the user and of the runtime.                               *)

LEMMA SaneIInv ==
    ASSUME IInv
    PROVE  Sane(owner, requests, Top) /\ Rest /\ ListFits /\ owner \in Owners
  BY SaneParts DEF IInv

LEMMA DrawMoves == ASSUME IInv, Draw PROVE IInv' /\ NeverReposts
  <1>1. PICK starts \in Outcomes :
           Becomes(Reconcile(owner, Albums, files, Loading, optimistic, starts))
    BY DEF Draw
  <1> DEFINE e == Reconcile(owner, Albums, files, Loading, optimistic, starts)
  <1>2. Works(owner, e, requests, Top)
    <2>1. e = Reconcile(owner, Albums, files, Loading, optimistic, starts)
      OBVIOUS
    <2>2. Albums \in SUBSET Albums
      OBVIOUS
    <2> HIDE DEF e
    <2> QED
      BY <2>1, <2>2, SaneIInv, ReconcileWorks
  <1>3. Rest' /\ requests' = requests /\ attempts' = attempts
    BY SaneIInv DEF Draw, Rest, bounds
  <1> HIDE DEF e
  <1>4. Becomes(e)
    BY <1>1 DEF e
  <1> QED
    BY <1>2, <1>3, <1>4, WorksMoves

LEMMA PumpMoves == ASSUME IInv, Pump PROVE IInv' /\ NeverReposts
  <1>1. PICK starts \in Outcomes : Becomes(Dispatch(owner, starts))
    BY DEF Pump
  <1> DEFINE e == Dispatch(owner, starts)
  <1>2. Works(owner, e, requests, Top)
    <2>1. e = Dispatch(owner, starts)
      OBVIOUS
    <2> HIDE DEF e
    <2> QED
      BY <2>1, SaneIInv, DispatchWorks
  <1>3. Rest' /\ requests' = requests /\ attempts' = attempts
    BY SaneIInv DEF Pump, Rest, bounds
  <1> HIDE DEF e
  <1>4. Becomes(e)
    BY <1>1 DEF e
  <1> QED
    BY <1>2, <1>3, <1>4, WorksMoves

\* What Fault does to the types.
LEMMA FaultTyped == ASSUME Rest, Fault PROVE faults' \in 0..MaxFaults
  BY Numbers DEF Rest, Fault

LEMMA RemoveAlbumMoves ==
    ASSUME IInv, NEW k \in Albums, RemoveAlbum(k) PROVE IInv' /\ NeverReposts
  <1>1. owner' = owner /\ exchange' = exchange /\ requests' = requests /\ attempts' = attempts
    BY DEF RemoveAlbum, deviceVars, ownerVars, owner
  <1>2. Rest'
    BY SaneIInv, FaultTyped DEF RemoveAlbum, deviceVars, Rest
  <1>3. Sane(owner', requests, Top) /\ SentFrom(requests)
    BY <1>1, SaneIInv DEF SentFrom
  <1> QED
    BY <1>1, <1>2, <1>3, OwnerMoves

LEMMA RebootMoves == ASSUME IInv, Reboot PROVE IInv' /\ NeverReposts
  <1>1. requests' = requests /\ attempts' = attempts /\ exchange' = None
    BY DEF Reboot
  <1>2. Rest'
    BY SaneIInv, FaultTyped DEF Reboot, Rest
  <1>3. Sane(owner', requests, Top)
    <2>1. owner' \in Owners
      <3>1. << >> \in Seq(Operations)
        OBVIOUS
      <3> QED
        BY <3>1 DEF owner, Owners, Reboot
    <2>2. owner'.operations = << >> /\ owner'.inflight = None /\ owner'.exchange = None
      BY DEF Reboot, owner
    <2> HIDE DEF owner
    <2> QED
      BY <2>1, <2>2, NothingSane
  <1>4. SentFrom(requests)
    BY <1>1 DEF SentFrom
  <1> QED
    BY <1>1, <1>2, <1>3, <1>4, OwnerMoves

-----------------------------------------------------------------------------
(* Answers to a POST.                                                      *)

LEMMA RefusedFits == \A album, reqs : Fits(Refused, album, reqs)
  BY DEF Fits, Refused, Answers

LEMMA AnswerFits ==
    ASSUME IInv, IsPost(exchange), exchange.answer # None
    PROVE  Fits(exchange.answer, exchange.album, requests)
  <1>1. IsPost(owner.exchange) /\ owner.exchange = exchange
    BY OwnerIs
  <1>2. exchange.answer \in Answers
    BY <1>1, SaneIInv, PostName
  <1>3. Posting(owner, requests, Top)
    BY SaneIInv, SaneParts
  <1> QED
    BY <1>1, <1>2, <1>3 DEF Posting, Fits

LEMMA ResolveMoves ==
    ASSUME IInv, IsPost(exchange), NEW answer, Fits(answer, exchange.album, requests),
           NEW starts \in Outcomes, Resolve(exchange.id, exchange.album, answer, starts),
           UNCHANGED <<session, files, requests, attempts, sessions>>,
           faults' \in 0..MaxFaults
    PROVE  IInv' /\ NeverReposts
  <1>1. optimistic \in SUBSET Albums
    BY SaneIInv DEF Rest
  <1>2. Sane(owner', requests, Top) /\ optimistic' \in SUBSET Albums /\ SentFrom(requests)
    BY <1>1, SaneIInv, ResolveWorks
  <1>3. Rest'
    BY <1>2, SaneIInv DEF Rest
  <1> QED
    BY <1>2, <1>3, OwnerMoves

LEMMA FinishPostMoves == ASSUME IInv, FinishPost PROVE IInv' /\ NeverReposts
  <1>1. IsPost(exchange) /\ exchange.answer # None
    BY DEF FinishPost
  <1>2. PICK starts \in Outcomes :
           Resolve(exchange.id, exchange.album, exchange.answer, starts)
    BY DEF FinishPost
  <1>3. UNCHANGED <<session, files, requests, attempts, sessions>> /\ faults' \in 0..MaxFaults
    BY SaneIInv DEF FinishPost, bounds, Rest
  <1>4. Fits(exchange.answer, exchange.album, requests)
    BY <1>1, AnswerFits
  <1> QED
    BY <1>1, <1>2, <1>3, <1>4, ResolveMoves

LEMMA TimeOutPostMoves == ASSUME IInv, TimeOutPost PROVE IInv' /\ NeverReposts
  <1>1. PICK starts \in Outcomes : Resolve(exchange.id, exchange.album, Refused, starts)
    BY DEF TimeOutPost
  <1>2. /\ UNCHANGED <<session, files, requests, attempts, sessions>>
        /\ faults' \in 0..MaxFaults /\ IsPost(exchange)
    BY SaneIInv, FaultTyped DEF TimeOutPost
  <1>3. Fits(Refused, exchange.album, requests)
    BY RefusedFits
  <1> QED
    BY <1>1, <1>2, <1>3, ResolveMoves

-----------------------------------------------------------------------------
(* The list of requests.                                                   *)

LEMMA StartListMoves == ASSUME IInv, StartList PROVE IInv' /\ NeverReposts
  <1>1. exchange' = List /\ exchange = None /\ requests' = requests /\ attempts' = attempts
    BY DEF StartList, bounds
  <1>2. Rest'
    <2>1. UNCHANGED <<optimistic, session, files, requests, attempts, sessions, faults>>
      BY DEF StartList, bounds
    <2> QED
      BY <2>1, SaneIInv DEF Rest
  <1>3. Sane(owner', requests, Top)
    <2> DEFINE e == [owner EXCEPT !.exchange = List]
    <2>1. owner' = e
      BY DEF StartList, owner
    <2>2. List \in Exchanges /\ ~IsPost(List)
      BY DEF List, Exchanges, IsPost
    <2>3. owner \in Owners /\ Distinct(owner, Top) /\ Owned(owner, requests)
          /\ ~IsPost(owner.exchange)
      BY <1>1, SaneIInv, SaneParts, OwnerIs DEF IsPost
    <2>4. owner.inflight = None /\ \A i \in 1..Len(owner.operations) : ~owner.operations[i].pending
      BY <2>3, SaneIInv, NoPostNoneHeld
    <2> HIDE DEF owner
    <2>5. e \in Owners /\ e.operations = owner.operations /\ e.inflight = None
          /\ e.exchange = List
      BY <2>2, <2>3, <2>4 DEF Owners
    <2> HIDE DEF e
    <2>6. Distinct(e, Top) /\ Owned(e, requests)
      BY <2>3, <2>5 DEF Distinct, Owned
    <2>7. Locked(e) /\ Posting(e, requests, Top)
      BY <2>2, <2>4, <2>5 DEF Locked, Posting
    <2> QED
      BY <2>1, <2>5, <2>6, <2>7 DEF Sane
  <1>4. ListFits' /\ ~IsPost(exchange')
    BY <1>1 DEF ListFits, List, IsPost
  <1> QED
    BY <1>1, <1>2, <1>3, <1>4, QuietMoves

LEMMA ListFailsMoves == ASSUME IInv, ListFails PROVE IInv' /\ NeverReposts
  <1>1. IsList(exchange) /\ exchange' = None /\ requests' = requests /\ attempts' = attempts
    BY DEF ListFails
  <1>2. Rest'
    BY SaneIInv, FaultTyped DEF ListFails, Rest
  <1>3. Sane(owner', requests, Top)
    <2> DEFINE e == [owner EXCEPT !.exchange = None]
    <2>1. owner' = e
      BY DEF ListFails, owner
    <2>2. ~IsPost(owner.exchange)
      BY <1>1, OwnerIs DEF IsPost, IsList
    <2>3. Freed(owner, e) /\ \A i \in 1..Len(owner.operations) : ~owner.operations[i].pending
      BY <2>2, SaneIInv, NoPostNoneHeld
    <2> HIDE DEF e, owner
    <2> QED
      BY <2>1, <2>3, SaneIInv, FreedSane
  <1>4. ListFits' /\ ~IsPost(exchange')
    BY <1>1 DEF ListFits, IsList, IsPost
  <1> QED
    BY <1>1, <1>2, <1>3, <1>4, QuietMoves

-----------------------------------------------------------------------------
(* The answer to a list, and the companion's steps but for the POST.       *)

LEMMA AnswerListMoves == ASSUME IInv, AnswerList PROVE IInv' /\ NeverReposts
  <1>1. IsList(exchange) /\ exchange.answer # None
    BY DEF AnswerList
  <1>2. PICK starts \in Outcomes : FinishList(exchange.answer, starts)
    BY DEF AnswerList
  <1> DEFINE seen == exchange.answer
             c == owner
             d == Reconcile([c EXCEPT !.exchange = None], Albums, files, Loading, optimistic,
                            starts)
             e == ReconcileStartup(EndRequests(d, seen, starts), seen, ApplyKeys, starts)
  <1>3. Becomes(e) /\ optimistic' \subseteq optimistic
    BY <1>2 DEF FinishList
  <1>4. UNCHANGED <<session, files, requests, attempts, sessions, faults>>
    BY DEF AnswerList, bounds
  <1>5. Lists(seen, requests) /\ Sane(c, requests, Top) /\ Tops(Top) /\ ~IsPost(c.exchange)
    BY <1>1, SaneIInv, TopIs, OwnerIs DEF ListFits, IsPost, IsList
  <1>6. Looks(c, d, files, Loading, optimistic, starts)
        /\ Settles(d, e, seen, ApplyKeys, starts)
    BY DEF Looks, Settles
  <1>7. c.operations = operations /\ c = owner
    BY OwnerIs
  <1> HIDE DEF e, d, seen, c
  <1>8. Sane(e, requests, Top) /\ SentForFree(c, e, requests)
    BY <1>5, <1>6, ListWorks
  <1>9. owner' = e /\ exchange' = e.exchange
    <2>1. e \in Owners
      BY <1>8, SaneParts
    <2> QED
      BY <1>3, <2>1, BecomesOwner DEF Becomes
  <1>10. SentFrom(requests)
    BY <1>7, <1>8, <1>9 DEF SentFrom, SentForFree
  <1>11. Rest'
    BY <1>3, <1>4, SaneIInv DEF Rest
  <1> QED
    BY <1>4, <1>8, <1>9, <1>10, <1>11, OwnerMoves

LEMMA ListsItself == ASSUME Rest PROVE Lists(requests, requests)
  BY DEF Rest, Lists

LEMMA ServeListMoves == ASSUME IInv, ServeList PROVE IInv' /\ NeverReposts
  <1> DEFINE x == [exchange EXCEPT !.answer = requests]
             e == [owner EXCEPT !.exchange = x]
  <1>1. /\ IsList(exchange) /\ exchange' = x
        /\ UNCHANGED <<operations, inflight, shadows, downloaded, failed>>
        /\ UNCHANGED <<optimistic, session, files, requests, attempts, sessions, faults>>
    BY DEF ServeList, bounds
  <1>2. owner' = e
    BY <1>1 DEF owner
  <1>3. exchange \in Exchanges /\ owner.exchange = exchange /\ owner \in Owners
    BY <1>1, SaneIInv, OwnerIs DEF Owners, IsList
  <1>4. x \in Exchanges /\ IsList(x) /\ x.answer = requests /\ ~IsPost(x)
    <2>1. requests \in Seq(Requests)
      BY SaneIInv DEF Rest
    <2>2. exchange.kind = "list" /\ exchange # None
      BY <1>1 DEF IsList
    <2>3. exchange \in [kind : {"list"}, answer : Seq(Requests) \cup {None}]
      BY <1>3, <2>2 DEF Exchanges
    <2>4. x \in [kind : {"list"}, answer : Seq(Requests) \cup {None}] /\ x.answer = requests
          /\ x.kind = "list"
      BY <2>1, <2>3
    <2>5. x \in Exchanges
      BY <2>4 DEF Exchanges
    <2>6. x # None
      BY <2>5, NoneAssumption
    <2> QED
      BY <2>4, <2>5, <2>6 DEF IsList, IsPost
  <1> HIDE DEF x
  <1>5. e \in Owners /\ e.operations = owner.operations /\ e.inflight = owner.inflight
        /\ e.exchange = x
    BY <1>3, <1>4 DEF Owners
  <1> HIDE DEF e
  <1>6. ~IsPost(owner.exchange)
    BY <1>1, <1>3 DEF IsPost, IsList
  <1>7. Sane(e, requests, Top)
    <2>1. Distinct(e, Top) /\ Owned(e, requests)
      BY <1>5, SaneIInv, SaneParts DEF Distinct, Owned
    <2>2. Locked(e)
      BY <1>5, <1>6, SaneIInv, NoPostNoneHeld DEF Locked
    <2>3. Posting(e, requests, Top)
      BY <1>4, <1>5 DEF Posting
    <2> QED
      BY <1>5, <2>1, <2>2, <2>3 DEF Sane
  <1>8. Rest'
    BY <1>1, SaneIInv DEF Rest
  <1>9. ListFits' /\ ~IsPost(exchange')
    <2>1. Lists(x.answer, requests)
      BY <1>4, SaneIInv, ListsItself
    <2> QED
      BY <1>1, <1>4, <2>1 DEF ListFits
  <1> QED
    BY <1>1, <1>2, <1>7, <1>8, <1>9, QuietMoves

-----------------------------------------------------------------------------
(* Apply sessions.                                                         *)

LEMMA BindingTyped ==
    ASSUME IInv, NEW album PROVE Binding(album) \in Ids \cup {None, Ambiguous}
  <1> DEFINE places == IF Named THEN Places(owner, album) ELSE {}
             i == CHOOSE i \in places : TRUE
  <1>1. CASE places = {}
    BY <1>1 DEF Binding
  <1>2. CASE places # {}
    <2>1. i \in places
      BY <1>2
    <2>2. i \in 1..Len(owner.operations) /\ owner.operations = operations
      BY <2>1, OwnerIs DEF Places
    <2>3. operations[i] \in Operations
      BY <2>2, SaneIInv, OwnerFields
    <2>4. operations[i].id \in Ids /\ operations[i].request \in RequestIds \cup {None}
      BY <2>3, OperationFields
    <2>5. Binding(album) = IF operations[i].conflict THEN Ambiguous
                           ELSE IF operations[i].request # None THEN operations[i].request
                           ELSE operations[i].id
      BY <1>2 DEF Binding
    <2> QED
      BY <2>4, <2>5 DEF Ids
  <1> QED
    BY <1>1, <1>2

LEMMA StartApplyMoves ==
    ASSUME IInv, NEW S \in SUBSET Albums, StartApply(S) PROVE IInv' /\ NeverReposts
  <1>1. /\ owner' = owner /\ exchange' = exchange
        /\ UNCHANGED <<optimistic, files, requests, attempts, faults>>
        /\ session' = [k \in S |-> Binding(k)]
    BY DEF StartApply, ownerVars, owner
  <1>2. sessions' \in 0..MaxSessions
    BY SaneIInv, Numbers DEF StartApply, Rest
  <1>3. session' \in UNION {[T -> Ids \cup {None, Ambiguous}] : T \in SUBSET Albums}
    <2>1. session' \in [S -> Ids \cup {None, Ambiguous}]
      BY <1>1, BindingTyped
    <2> QED
      BY <2>1
  <1>4. Rest'
    BY <1>1, <1>2, <1>3, SaneIInv DEF Rest
  <1>5. Sane(owner', requests, Top) /\ SentFrom(requests)
    BY <1>1, SaneIInv DEF SentFrom
  <1> QED
    BY <1>1, <1>4, <1>5, OwnerMoves

LEMMA LoadingTyped == ASSUME Rest PROVE Loading \in SUBSET Albums
  <1>1. CASE session = None
    BY <1>1 DEF Loading
  <1>2. CASE session # None
    <2>1. PICK T \in SUBSET Albums : session \in [T -> Ids \cup {None, Ambiguous}]
      BY <1>2 DEF Rest
    <2> QED
      BY <1>2, <2>1 DEF Loading
  <1> QED
    BY <1>1, <1>2

LEMMA ItemsTyped ==
    ASSUME NEW S \in SUBSET Albums, NEW order \in SetToSeqs(S)
    PROVE  order \in Seq(Albums) /\ Len(order) \in Nat
  <1> DEFINE n == Cardinality(S)
  <1>1. n \in Nat
    <2>1. IsFiniteSet(S)
      BY DownloadAssumption, FS_Subset
    <2> QED
      BY <2>1, FS_CardinalityType
  <1>2. order \in [1..n -> S]
    BY DEF SetToSeqs
  <1> HIDE DEF n
  <1>3. order = [i \in 1..n |-> order[i]] /\ \A i \in 1..n : order[i] \in Albums
    BY <1>2
  <1> QED
    BY <1>1, <1>3, SeqMade

\* The albums that are complete, one after the other.
CompletesUp(items, starts, f) ==
    f = [n \in 0..Len(items) |-> IF n = 0 THEN owner ELSE Complete(f[n - 1], items[n], starts)]

Completed(items, have, rest, starts) ==
    LET f[n \in 0..Len(items)] ==
            IF n = 0 THEN owner ELSE Complete(f[n - 1], items[n], starts)
    IN  Becomes(Reconcile(f[Len(items)], Albums, have, {}, rest, starts))

LEMMA CompletesRuns ==
    ASSUME NEW items, NEW have, NEW rest, NEW starts, \E f : CompletesUp(items, starts, f),
           Completed(items, have, rest, starts)
    PROVE  \E f : /\ CompletesUp(items, starts, f)
                  /\ Becomes(Reconcile(f[Len(items)], Albums, have, {}, rest, starts))
  BY DEF CompletesUp, Completed

-----------------------------------------------------------------------------
(* The end of an apply session.                                            *)

LEMMA CompletesWorks ==
    ASSUME NEW reqs, NEW top, Sane(owner, reqs, top), NEW items \in Seq(Albums),
           NEW starts \in Outcomes
    PROVE  /\ \E f : CompletesUp(items, starts, f)
           /\ \A f : CompletesUp(items, starts, f) => Works(owner, f[Len(items)], reqs, top)
  <1> DEFINE N == Len(items)
             D == {x \in Owners : Sane(x, reqs, top)}
             step == [n \in 1..N |-> [x \in D |-> Complete(x, items[n], starts)]]
  <1>0. N \in Nat /\ owner \in D /\ \A n \in 1..N : items[n] \in Albums
    BY SaneParts
  <1>1. ASSUME NEW n \in 1..N, NEW x \in D, NEW y, y = Complete(x, items[n], starts)
        PROVE  y \in D /\ Works(x, y, reqs, top)
    <2>1. Works(x, y, reqs, top)
      <3> DEFINE album == items[n]
      <3>1. album \in Albums /\ y = Complete(x, album, starts)
        BY <1>0, <1>1
      <3> HIDE DEF album
      <3> QED
        BY <3>1, CompleteFailWorks
    <2>2. Sane(y, reqs, top) /\ y \in Owners
      BY <2>1 DEF Works, Sane
    <2> QED
      BY <2>1, <2>2
  <1>2. step \in [1..N -> [D -> D]]
    <2> SUFFICES ASSUME NEW n \in 1..N, NEW x \in D
                 PROVE  Complete(x, items[n], starts) \in D
      OBVIOUS
    <2> HIDE DEF D, N
    <2> QED
      BY <1>1
  <1>3. \A n \in 1..N : \A x \in D : step[n][x] = Complete(x, items[n], starts)
    OBVIOUS
  <1> HIDE DEF step, D, N
  <1>4. PICK g \in [0..N -> D] : g[0] = owner /\ \A n \in 1..N : g[n] = step[n][g[n - 1]]
    <2>1. Stepping(N, D, step)
      BY <1>2 DEF Stepping
    <2>2. PICK g : Folds(N, D, owner, step, g)
      BY <1>0, <2>1, FoldExists
    <2> QED
      BY <2>2 DEF Folds
  <1>5. CompletesUp(items, starts, g)
    <2>1. \A n \in 0..N : g[n] = IF n = 0 THEN owner ELSE Complete(g[n - 1], items[n], starts)
      <3> TAKE n \in 0..N
      <3>1. CASE n = 0
        BY <1>4, <3>1
      <3>2. CASE n # 0
        <4>1. n \in 1..N /\ n - 1 \in 0..N /\ g[n - 1] \in D
          BY <1>0, <1>4, <3>2
        <4>2. g[n] = step[n][g[n - 1]]
          BY <1>4, <4>1
        <4> QED
          BY <1>3, <3>2, <4>1, <4>2
      <3> QED
        BY <3>1, <3>2
    <2> QED
      BY <1>4, <2>1 DEF CompletesUp, N
  <1>6. ASSUME NEW f, CompletesUp(items, starts, f) PROVE Works(owner, f[N], reqs, top)
    <2>1. \A n \in 0..N : f[n] = IF n = 0 THEN owner ELSE Complete(f[n - 1], items[n], starts)
      <3> DEFINE body == [n \in 0..N |-> IF n = 0 THEN owner
                                         ELSE Complete(f[n - 1], items[n], starts)]
      <3>1. f = body
        BY <1>6 DEF CompletesUp, N
      <3>2. \A n \in 0..N : body[n] = IF n = 0 THEN owner
                                      ELSE Complete(f[n - 1], items[n], starts)
        OBVIOUS
      <3> HIDE DEF body
      <3> QED
        BY <3>1, <3>2
    <2> DEFINE Good == {n \in 0..N : Works(owner, f[n], reqs, top)}
    <2>2. 0 \in Good
      BY <1>0, <2>1, WorksItself
    <2>3. ASSUME NEW n \in 1..N, n - 1 \in Good PROVE n \in Good
      <3> DEFINE x == f[n - 1]
                 y == f[n]
      <3>1. n \in 0..N /\ n # 0 /\ Works(owner, x, reqs, top)
        BY <1>0, <2>3
      <3>2. y = Complete(x, items[n], starts)
        BY <2>1, <3>1
      <3>3. x \in D
        BY <3>1, SaneParts DEF Works, D
      <3> HIDE DEF x, y
      <3>4. Works(x, y, reqs, top)
        BY <1>1, <3>2, <3>3
      <3>5. Works(owner, y, reqs, top)
        BY <3>1, <3>4, WorksTwice
      <3> QED
        BY <3>1, <3>5 DEF y
    <2>4. Good \in SUBSET (0..N)
      OBVIOUS
    <2> HIDE DEF Good
    <2>5. N \in Good
      BY <1>0, <2>2, <2>3, <2>4, FoldKeeps
    <2> QED
      BY <2>5 DEF Good
  <1> QED
    BY <1>5, <1>6 DEF N

\* Every album of the session is complete, then all are looked up.
LEMMA CompletedWorks ==
    ASSUME IInv, NEW items \in Seq(Albums), NEW have, NEW rest, NEW starts \in Outcomes,
           Completed(items, have, rest, starts)
    PROVE  \E e : Works(owner, e, requests, Top) /\ Becomes(e)
  <1>1. PICK f : /\ CompletesUp(items, starts, f)
                 /\ Becomes(Reconcile(f[Len(items)], Albums, have, {}, rest, starts))
    BY SaneIInv, CompletesWorks, CompletesRuns
  <1> DEFINE d == f[Len(items)]
             e == Reconcile(d, Albums, have, {}, rest, starts)
  <1>2. Works(owner, d, requests, Top)
    BY <1>1, SaneIInv, CompletesWorks
  <1>3. Becomes(e)
    BY <1>1
  <1> HIDE DEF d
  <1>4. Works(d, e, requests, Top)
    <2> DEFINE loading == {}
    <2>1. Sane(d, requests, Top) /\ Albums \in SUBSET Albums
          /\ e = Reconcile(d, Albums, have, loading, rest, starts)
      BY <1>2 DEF Works
    <2> HIDE DEF e, loading
    <2> QED
      BY <2>1, ReconcileWorks
  <1> HIDE DEF e
  <1> QED
    BY <1>2, <1>3, <1>4, WorksTwice

LEMMA ApplySucceedsMoves ==
    ASSUME IInv, NEW order \in SetToSeqs(Loading),
           NEW have \in [Albums -> {"none", "part", "all"}], ApplySucceeds(order, have)
    PROVE  IInv' /\ NeverReposts
  <1> DEFINE items == IF Named THEN order ELSE << >>
             rest == optimistic \ DOMAIN session
  <1>1. PICK starts \in Outcomes : Completed(items, have, rest, starts)
    BY DEF ApplySucceeds, Completed
  <1>2. /\ files' = have /\ session' = None /\ optimistic' = rest
        /\ UNCHANGED <<requests, attempts, sessions, faults>>
    BY DEF ApplySucceeds, bounds
  <1>3. items \in Seq(Albums)
    <2>1. Loading \in SUBSET Albums
      BY SaneIInv, LoadingTyped
    <2>2. order \in Seq(Albums)
      BY <2>1, ItemsTyped
    <2> QED
      BY <2>2
  <1>4. PICK e : Works(owner, e, requests, Top) /\ Becomes(e)
    <2> HIDE DEF items, rest
    <2> QED
      BY <1>1, <1>3, CompletedWorks
  <1>5. Rest'
    BY <1>2, SaneIInv DEF Rest
  <1> QED
    BY <1>2, <1>4, <1>5, WorksMoves

LEMMA ApplyFailsMoves ==
    ASSUME IInv, NEW album, NEW have \in [Albums -> {"none", "part", "all"}],
           ApplyFails(album, have)
    PROVE  IInv' /\ NeverReposts
  <1> DEFINE ref == session[album]
  <1>1. /\ files' = have /\ session' = None /\ optimistic' \subseteq optimistic
        /\ UNCHANGED <<requests, attempts, sessions, faults>>
    BY DEF ApplyFails, bounds
  <1>2. Rest'
    BY <1>1, SaneIInv DEF Rest
  <1>3. CASE ref \in {None, Ambiguous}
    <2>1. UNCHANGED ownerVars
      BY <1>3 DEF ApplyFails
    <2>2. owner' = owner /\ exchange' = exchange
      BY <2>1 DEF ownerVars, owner
    <2>3. Sane(owner', requests, Top) /\ SentFrom(requests)
      BY <2>2, SaneIInv DEF SentFrom
    <2> QED
      BY <1>1, <1>2, <2>3, OwnerMoves
  <1>4. CASE ref \notin {None, Ambiguous}
    <2>1. PICK starts \in Outcomes : Becomes(FailAttempt(owner, ref, starts))
      BY <1>4 DEF ApplyFails
    <2> DEFINE e == EndAttempt(owner, ref, FALSE, starts)
    <2>2. Becomes(e) /\ e = EndAttempt(owner, ref, FALSE, starts)
      BY <2>1 DEF FailAttempt
    <2> HIDE DEF e, ref
    <2>3. Works(owner, e, requests, Top)
      BY <2>2, SaneIInv, EndAttemptWorks
    <2> QED
      BY <1>1, <1>2, <2>2, <2>3, WorksMoves
  <1> QED
    BY <1>3, <1>4

LEMMA EndApplyMoves == ASSUME IInv, EndApply PROVE IInv' /\ NeverReposts
  <1>1. Loaded({"part", "all"}) \subseteq [Albums -> {"none", "part", "all"}]
    BY DEF Loaded
  <1>2. \/ \E order \in SetToSeqs(Loading), have \in Loaded({"part", "all"}) :
              ApplySucceeds(order, have)
        \/ \E album \in Loading, have \in Loaded({"part", "all"}) : ApplyFails(album, have)
    BY DEF EndApply
  <1>3. ASSUME NEW order \in SetToSeqs(Loading), NEW have \in Loaded({"part", "all"}),
               ApplySucceeds(order, have)
        PROVE  IInv' /\ NeverReposts
    BY <1>1, <1>3, ApplySucceedsMoves
  <1>4. ASSUME NEW album \in Loading, NEW have \in Loaded({"part", "all"}),
               ApplyFails(album, have)
        PROVE  IInv' /\ NeverReposts
    BY <1>1, <1>4, ApplyFailsMoves
  <1> QED
    BY <1>2, <1>3, <1>4

-----------------------------------------------------------------------------
(* The companion's requests: they change their state, and a POST makes one.  *)

\* The requests there were are still there; those for another album than "album"
\* that counted still do, and nothing that did not count does now.
Grows(reqs, news, album) ==
    /\ \A r \in 1..Len(reqs) : r \in 1..Len(news) /\ news[r].album = reqs[r].album
    /\ \A r \in Latest(news) : r \in 1..Len(reqs) => r \in Latest(reqs)
    /\ \A r \in Latest(reqs) :
          r \in 1..Len(reqs) /\ (reqs[r].album # album => r \in Latest(news))
    /\ None \notin Latest(news)

LEMMA LatestIsPlace == \A reqs : Latest(reqs) \subseteq 1..Len(reqs) /\ None \notin Latest(reqs)
  <1> TAKE reqs
  <1>1. Latest(reqs) \subseteq 1..Len(reqs)
    BY DEF Latest
  <1>2. None \notin 1..Len(reqs)
    BY IdsApart
  <1> QED
    BY <1>1, <1>2

\* For an owner whose attempts of requests are for other albums.
Clears(d, album) ==
    \A i \in 1..Len(d.operations) :
        d.operations[i].id \in RequestIds => d.operations[i].album # album

LEMMA GrowsOwned ==
    ASSUME NEW reqs, NEW news, NEW album, Grows(reqs, news, album), NEW d, Owned(d, reqs),
           Clears(d, album)
    PROVE  Owned(d, news)
  <1> SUFFICES ASSUME NEW i \in 1..Len(d.operations)
               PROVE  LET o == d.operations[i]
                      IN  /\ o.request # None => /\ o.request \in 1..Len(news)
                                                 /\ news[o.request].album = o.album
                          /\ o.request \in Latest(news) => o.dispatched /\ o.confirmed
                          /\ o.id \in RequestIds => /\ o.request = o.id
                                                    /\ o.id \in Latest(news)
    BY DEF Owned
  <1> DEFINE o == d.operations[i]
  <1>1. /\ o.request # None => /\ o.request \in 1..Len(reqs)
                               /\ reqs[o.request].album = o.album
        /\ o.request \in Latest(reqs) => o.dispatched /\ o.confirmed
        /\ o.id \in RequestIds => /\ o.request = o.id
                                  /\ o.id \in Latest(reqs)
    BY DEF Owned
  <1>2. o.id \in RequestIds => o.album # album
    BY DEF Clears
  <1> HIDE DEF o
  <1>3. o.request # None => /\ o.request \in 1..Len(news)
                            /\ news[o.request].album = o.album
    BY <1>1 DEF Grows
  <1>4. o.request \in Latest(news) => o.dispatched /\ o.confirmed
    <2> HAVE o.request \in Latest(news)
    <2>1. o.request # None
      BY DEF Grows
    <2>2. o.request \in Latest(reqs)
      BY <1>1, <2>1 DEF Grows
    <2> QED
      BY <1>1, <2>2
  <1>5. o.id \in RequestIds => /\ o.request = o.id
                               /\ o.id \in Latest(news)
    <2> HAVE o.id \in RequestIds
    <2>1. o.request = o.id /\ o.id \in Latest(reqs) /\ o.album # album
      BY <1>1, <1>2
    <2>2. reqs[o.id].album = o.album
      <3>1. o.id # None
        BY <2>1, LatestIsPlace
      <3> QED
        BY <1>1, <2>1, <3>1
    <2> QED
      BY <2>1, <2>2 DEF Grows
  <1> QED
    BY <1>3, <1>4, <1>5 DEF o

\* The companion moves on with a request.
LEMMA ListsGrows ==
    ASSUME NEW reqs, NEW news, NEW album, Lists(news, reqs)
    PROVE  Grows(reqs, news, album)
  <1>1. Latest(news) = Latest(reqs) /\ Latest(news) \subseteq 1..Len(news)
    BY SameLatest
  <1>2. None \notin Latest(news)
    BY LatestIsPlace
  <1> QED
    BY <1>1, <1>2 DEF Lists, Grows

LEMMA WorkOnLists ==
    ASSUME Rest, NEW r \in RequestIds, WorkOn(r)
    PROVE  Lists(requests', requests)
  <1>1. r \in 1..Len(requests)
    BY DEF WorkOn
  <1>2. PICK state \in Active \cup {"downloaded", "failed"} :
           requests' = [requests EXCEPT ![r].state = state]
    BY DEF WorkOn, Active
  <1>3. requests[r] \in Requests /\ requests \in Seq(Requests) /\ Len(requests) \in Nat
    BY <1>1 DEF Rest
  <1> DEFINE q == [requests[r] EXCEPT !.state = state]
  <1>4. q \in Requests /\ q.album = requests[r].album
    BY <1>2, <1>3 DEF Requests
  <1>5. requests' = [requests EXCEPT ![r] = q]
    BY <1>2
  <1> HIDE DEF q
  <1>6. requests' \in Seq(Requests) /\ Len(requests') = Len(requests)
        /\ requests'[r] = q /\ \A s \in 1..Len(requests) : s # r => requests'[s] = requests[s]
    BY <1>1, <1>3, <1>4, <1>5, ExceptSeq
  <1>7. \A s \in 1..Len(requests) : requests'[s].album = requests[s].album
    BY <1>4, <1>6
  <1> QED
    BY <1>6, <1>7 DEF Lists, Rest

LEMMA WorkOnMoves ==
    ASSUME IInv, NEW r \in RequestIds, WorkOn(r) PROVE IInv' /\ NeverReposts
  <1>1. Lists(requests', requests)
    BY SaneIInv, WorkOnLists
  <1>2. /\ owner' = owner /\ exchange' = exchange
        /\ UNCHANGED <<optimistic, session, files, attempts, sessions, faults>>
    BY DEF WorkOn, deviceVars, ownerVars, bounds, owner
  <1>3. Rest'
    BY <1>1, <1>2, SaneIInv DEF Rest, Lists
  <1>4. Sane(owner, requests', Top)
    <2>1. PICK album : album \notin Albums
      BY NoSetContainsEverything
    <2>2. Clears(owner, album)
      <3>1. \A i \in 1..Len(owner.operations) : owner.operations[i].album \in Albums
        BY SaneIInv, OperationsTyped
      <3> QED
        BY <2>1, <3>1 DEF Clears
    <2>3. Grows(requests, requests', album)
      BY <1>1, ListsGrows
    <2>4. /\ owner \in Owners /\ Distinct(owner, Top) /\ Owned(owner, requests)
          /\ Locked(owner) /\ Posting(owner, requests, Top)
      BY SaneIInv, SaneParts
    <2> HIDE DEF owner
    <2>5. Owned(owner, requests')
      BY <2>2, <2>3, <2>4, GrowsOwned
    <2>6. Posting(owner, requests', Top)
      BY <2>3, <2>4 DEF Posting, Grows
    <2> QED
      BY <2>4, <2>5, <2>6 DEF Sane
  <1>5. Top' = Top
    BY <1>2 DEF Top
  <1>6. Sane(owner', requests', Top')
    BY <1>2, <1>4, <1>5
  <1>7. ListFits'
    <2> SUFFICES ASSUME IsList(exchange), exchange.answer # None
                 PROVE  Lists(exchange.answer, requests')
      BY <1>2 DEF ListFits
    <2>1. Lists(exchange.answer, requests)
      BY SaneIInv DEF ListFits
    <2> QED
      BY <1>1, <2>1 DEF Lists
  <1>8. NeverReposts
    BY <1>2 DEF NeverReposts, Posts
  <1> QED
    BY <1>3, <1>6, <1>7, <1>8 DEF IInv

-----------------------------------------------------------------------------
(* A POST is received.                                                     *)

LEMMA AppendGrows ==
    ASSUME NEW reqs \in Seq(Requests), NEW album \in Albums, NEW news,
           news = Append(reqs, [album |-> album, state |-> "queued"])
    PROVE  /\ Grows(reqs, news, album) /\ news \in Seq(Requests)
           /\ Len(news) = Len(reqs) + 1 /\ Len(reqs) + 1 \in 1..Len(news)
           /\ news[Len(reqs) + 1].album = album
  <1> DEFINE q == [album |-> album, state |-> "queued"]
  <1>1. q \in Requests /\ q.album = album
    BY DEF Requests, Active
  <1> HIDE DEF q
  <1>2. news = Append(reqs, q)
    BY DEF q
  <1>3. /\ news \in Seq(Requests) /\ Len(news) = Len(reqs) + 1 /\ Len(reqs) \in Nat
        /\ news[Len(reqs) + 1] = q /\ \A r \in 1..Len(reqs) : news[r] = reqs[r]
    BY <1>1, <1>2
  <1> DEFINE l == Len(reqs)
             m == Len(news)
  <1>4. /\ l \in Nat /\ m = l + 1 /\ \A r \in 1..l : r \in 1..m /\ r <= m
        /\ m \in 1..m /\ m \notin 1..l /\ \A r \in 1..m : r \in 1..l \/ r = m
        /\ \A r \in 1..l : ~(m <= r)
    BY <1>3
  <1>5. /\ \A r \in 1..l : news[r].album = reqs[r].album
        /\ news[m].album = album
    BY <1>1, <1>3
  <1> HIDE DEF l, m
  <1>6. \A r : r \in Latest(news) <=>
                 r \in 1..m /\ \A s \in 1..m : news[s].album = news[r].album => s <= r
    BY DEF Latest, m
  <1>7. \A r : r \in Latest(reqs) <=>
                 r \in 1..l /\ \A s \in 1..l : reqs[s].album = reqs[r].album => s <= r
    BY DEF Latest, l
  <1>8. ASSUME NEW r \in Latest(news), r \in 1..l PROVE r \in Latest(reqs)
    BY <1>4, <1>5, <1>6, <1>7, <1>8
  <1>9. ASSUME NEW r \in Latest(reqs), reqs[r].album # album PROVE r \in Latest(news)
    <2>1. r \in 1..l /\ r \in 1..m /\ news[r].album = reqs[r].album
      BY <1>4, <1>5, <1>7
    <2>2. ASSUME NEW s \in 1..m, news[s].album = news[r].album PROVE s <= r
      <3>1. s # m
        BY <1>5, <1>9, <2>1, <2>2
      <3>2. s \in 1..l
        BY <1>4, <3>1
      <3>3. reqs[s].album = reqs[r].album
        BY <1>5, <2>1, <2>2, <3>2
      <3> QED
        BY <1>7, <3>2, <3>3
    <2> QED
      BY <1>6, <2>1, <2>2
  <1>10. Grows(reqs, news, album)
    <2>1. \A r \in 1..l : r \in 1..m /\ news[r].album = reqs[r].album
      BY <1>4, <1>5
    <2>2. \A r \in Latest(reqs) : r \in 1..l
      BY <1>7
    <2>3. None \notin Latest(news)
      BY LatestIsPlace
    <2> QED
      BY <1>8, <1>9, <2>1, <2>2, <2>3 DEF Grows, l, m
  <1> QED
    BY <1>3, <1>4, <1>5, <1>10 DEF l, m

\* The POST in flight has its answer.
LEMMA AnsweredSane ==
    ASSUME NEW reqs, NEW top, Sane(owner, reqs, top), IsPost(exchange), NEW news,
           Grows(reqs, news, exchange.album), NEW a, Fits(a, exchange.album, news),
           NEW x, x = [exchange EXCEPT !.answer = a],
           NEW e, e = [owner EXCEPT !.exchange = x]
    PROVE  Sane(e, news, top) /\ IsPost(x) /\ x.id = exchange.id
  <1>1. /\ owner \in Owners /\ Distinct(owner, top) /\ Owned(owner, reqs) /\ Locked(owner)
        /\ Posting(owner, reqs, top) /\ owner.exchange = exchange
    BY SaneParts, OwnerIs
  <1>2. exchange \in [kind : {"post"}, id : AttemptIds, album : Albums, answer : Answers \cup {None}]
    <2>1. exchange \in Exchanges
      BY <1>1, OwnerFields DEF IsPost
    <2> QED
      BY <2>1 DEF IsPost, Exchanges
  <1>3. a \in Answers
    BY DEF Fits
  <1>4. /\ x \in [kind : {"post"}, id : AttemptIds, album : Albums, answer : Answers \cup {None}]
        /\ x.id = exchange.id /\ x.album = exchange.album /\ x.answer = a /\ x.kind = "post"
    BY <1>2, <1>3
  <1>5. x \in Exchanges /\ IsPost(x)
    <2>1. x \in Exchanges
      BY <1>4 DEF Exchanges
    <2> QED
      BY <1>4, <2>1, NoneAssumption DEF IsPost
  <1> HIDE DEF owner
  <1>6. e \in Owners /\ e.operations = owner.operations /\ e.inflight = owner.inflight
        /\ e.exchange = x
    BY <1>1, <1>5 DEF Owners
  <1>7. Owned(owner, news)
    <2>1. Clears(owner, exchange.album)
      BY <1>1 DEF Clears, Posting
    <2> QED
      BY <1>1, <2>1, GrowsOwned
  <1>8. Distinct(e, top) /\ Owned(e, news)
    BY <1>1, <1>6, <1>7 DEF Distinct, Owned
  <1>9. Locked(e)
    BY <1>1, <1>4, <1>5, <1>6 DEF Locked
  <1>10. Posting(e, news, top)
    <2>1. a.request # None => a.request \in 1..Len(news) /\ news[a.request].album = x.album
      BY <1>4 DEF Fits
    <2> QED
      BY <1>1, <1>4, <1>5, <1>6, <2>1 DEF Posting
  <1> QED
    BY <1>4, <1>5, <1>6, <1>8, <1>9, <1>10 DEF Sane

LEMMA ReceivePostCases ==
    ASSUME IInv, ReceivePost
    PROVE  /\ IsPost(exchange) /\ Grows(requests, requests', exchange.album)
           /\ requests' \in Seq(Requests) /\ Len(requests') \in 0..MaxRequests
           /\ \E a : /\ exchange' = [exchange EXCEPT !.answer = a]
                     /\ Fits(a, exchange.album, requests')
  <1> DEFINE album == exchange.album
             known == {r \in 1..Len(requests) :
                          requests[r].album = album /\ requests[r].state # "failed"}
             Answer(a) == exchange' = [exchange EXCEPT !.answer = a]
  <1>1. IsPost(exchange)
    BY DEF ReceivePost
  <1>2. requests \in Seq(Requests) /\ Len(requests) \in 0..MaxRequests /\ Len(requests) \in Nat
    BY SaneIInv DEF Rest
  <1>3. album \in Albums
    BY <1>1, OwnerIs, SaneIInv, PostName
  <1>4. requests' = requests => Grows(requests, requests', album)
    BY SaneIInv, ListsItself, ListsGrows
  <1>5. \A r : r \in 1..Len(requests) => r \in RequestIds
    BY <1>2, Numbers DEF RequestIds
  <1>6. CASE Answer(Refused) /\ UNCHANGED requests
    BY <1>1, <1>2, <1>4, <1>6, RefusedFits
  <1>7. CASE /\ known # {} /\ UNCHANGED requests
             /\ \E r \in known : Answer(Accepted(None)) \/ Answer(Accepted(r))
    <2>1. PICK r \in known : Answer(Accepted(None)) \/ Answer(Accepted(r))
      BY <1>7
    <2>2. Fits(Accepted(None), album, requests) /\ Fits(Accepted(r), album, requests)
      BY <1>5 DEF Fits, Accepted, Answers
    <2> QED
      BY <1>1, <1>2, <1>4, <1>7, <2>1, <2>2
  <1>8. CASE /\ Len(requests) < MaxRequests
             /\ requests' = Append(requests, [album |-> album, state |-> "queued"])
             /\ Answer(Accepted(Len(requests) + 1))
    <2>1. /\ Grows(requests, requests', album) /\ requests' \in Seq(Requests)
          /\ Len(requests') = Len(requests) + 1
          /\ Len(requests) + 1 \in 1..Len(requests')
          /\ requests'[Len(requests) + 1].album = album
      <3> DEFINE news == requests'
      <3>1. news = Append(requests, [album |-> album, state |-> "queued"])
        BY <1>8
      <3> HIDE DEF news
      <3>2. /\ Grows(requests, news, album) /\ news \in Seq(Requests)
            /\ Len(news) = Len(requests) + 1
            /\ Len(requests) + 1 \in 1..Len(news)
            /\ news[Len(requests) + 1].album = album
        BY <1>2, <1>3, <3>1, AppendGrows
      <3> QED
        BY <3>2 DEF news
    <2>2. Len(requests') \in 0..MaxRequests /\ Len(requests) + 1 \in RequestIds
      BY <1>2, <1>8, <2>1, Numbers DEF RequestIds
    <2> DEFINE n == Len(requests) + 1
    <2>3. n \in RequestIds /\ n \in 1..Len(requests') /\ requests'[n].album = album
          /\ Answer(Accepted(n))
      BY <1>8, <2>1, <2>2
    <2> HIDE DEF n
    <2>4. Fits(Accepted(n), album, requests')
      BY <2>3 DEF Fits, Accepted, Answers
    <2> QED
      BY <1>1, <2>1, <2>2, <2>3, <2>4
  <1> QED
    BY <1>6, <1>7, <1>8 DEF ReceivePost

LEMMA ReceivePostMoves == ASSUME IInv, ReceivePost PROVE IInv' /\ NeverReposts
  <1>1. /\ IsPost(exchange) /\ Grows(requests, requests', exchange.album)
        /\ requests' \in Seq(Requests) /\ Len(requests') \in 0..MaxRequests
    BY ReceivePostCases
  <1>2. PICK a : /\ exchange' = [exchange EXCEPT !.answer = a]
                 /\ Fits(a, exchange.album, requests')
    BY ReceivePostCases
  <1>3. /\ UNCHANGED <<operations, inflight, shadows, downloaded, failed>>
        /\ UNCHANGED <<optimistic, session, files, attempts, sessions, faults>>
    BY DEF ReceivePost, bounds
  <1>4. Rest'
    BY <1>1, <1>3, SaneIInv DEF Rest
  <1>5. owner' = [owner EXCEPT !.exchange = exchange']
    BY <1>3 DEF owner
  <1>6. Sane(owner', requests', Top) /\ IsPost(exchange') /\ exchange'.id = exchange.id
    <2> DEFINE news == requests'
               x == exchange'
               e == owner'
    <2>1. /\ x = [exchange EXCEPT !.answer = a] /\ Fits(a, exchange.album, news)
          /\ e = [owner EXCEPT !.exchange = x] /\ Grows(requests, news, exchange.album)
      BY <1>1, <1>2, <1>5
    <2> HIDE DEF news, x, e
    <2>2. Sane(e, news, Top) /\ IsPost(x) /\ x.id = exchange.id
      BY <1>1, <2>1, SaneIInv, AnsweredSane
    <2> QED
      BY <2>2 DEF news, x, e
  <1>7. Top' = Top
    BY <1>3 DEF Top
  <1>8. Sane(owner', requests', Top')
    BY <1>6, <1>7
  <1>9. ListFits'
    BY <1>6 DEF ListFits, IsPost, IsList
  <1>10. NeverReposts
    BY <1>1, <1>6 DEF NeverReposts, Posts
  <1> QED
    BY <1>4, <1>8, <1>9, <1>10 DEF IInv

-----------------------------------------------------------------------------
(* The user asks for an album.                                             *)

\* An album without an attempt gets one of a new name.
Asks(d, e, id, album) ==
    \E fail \in SUBSET Albums :
        e = [d EXCEPT !.operations = Append(@, Attempt(id, album)), !.failed = fail]

\* The attempts of d are where they were, and one of the name "id" is the last.
Joined(d, e, id) ==
    \A i \in 1..Len(d.operations) :
        /\ i \in 1..Len(e.operations)
        /\ e.operations[i].id = d.operations[i].id
        /\ e.operations[i].request = d.operations[i].request

LEMMA AttemptFields ==
    ASSUME NEW id \in AttemptIds, NEW album \in Albums, NEW o, o = Attempt(id, album)
    PROVE  /\ o \in Operations /\ o.id = id /\ o.album = album /\ o.request = None
           /\ ~o.dispatched /\ ~o.confirmed /\ ~o.pending
  BY DEF Attempt, Operations, Ids

LEMMA AskSane ==
    ASSUME NEW reqs, NEW top \in Nat, NEW d, Sane(d, reqs, top), NEW id \in AttemptIds,
           id = top + 1, NEW album \in Albums, Places(d, album) = {}, NEW e,
           Asks(d, e, id, album)
    PROVE  Sane(e, reqs, id) /\ e.exchange = d.exchange /\ Joined(d, e, id)
  <1> DEFINE ops == d.operations
             o == Attempt(id, album)
             q == Append(ops, o)
  <1>1. /\ d \in Owners /\ Distinct(d, top) /\ Owned(d, reqs) /\ Locked(d)
        /\ Posting(d, reqs, top)
    BY SaneParts
  <1>2. /\ o \in Operations /\ o.id = id /\ o.album = album /\ o.request = None
        /\ ~o.dispatched /\ ~o.confirmed /\ ~o.pending
    BY AttemptFields
  <1>3. q \in Seq(Operations) /\ Adds(q, ops, o)
    <2>1. ops \in Seq(Operations)
      BY <1>1, OwnerFields
    <2> HIDE DEF o, ops
    <2> QED
      BY <1>2, <2>1, AppendAdds
  <1>4. /\ e \in Owners /\ e.operations = q /\ e.exchange = d.exchange
        /\ e.inflight = d.inflight
    <2>1. PICK fail \in SUBSET Albums : e = [d EXCEPT !.operations = q, !.failed = fail]
      BY DEF Asks
    <2> HIDE DEF q
    <2> QED
      BY <1>1, <1>3, <2>1 DEF Owners
  <1>5. \A i \in 1..Len(ops) : ops[i].album # album /\ ops[i].id <= top /\ ops[i].id \in Nat
    <2> TAKE i \in 1..Len(ops)
    <2>1. ops[i].album # album
      BY DEF Places
    <2>2. ops[i].id <= top
      BY <1>1 DEF Distinct
    <2>3. ops[i].id \in Ids
      BY <1>1, OwnerFields, OperationFields
    <2>4. ops[i].id \in Nat
      BY <2>3, IdsApart DEF Ids
    <2> QED
      BY <2>1, <2>2, <2>4
  <1> HIDE DEF q, o
  <1>6. /\ Len(q) \in Nat /\ Len(q) \in 1..Len(q) /\ q[Len(q)] = o
        /\ \A i \in 1..Len(ops) : i \in 1..Len(q) /\ q[i] = ops[i]
        /\ \A i \in 1..Len(q) : i \notin 1..Len(ops) => i = Len(q)
    BY <1>3 DEF Adds
  <1> HIDE DEF ops
  <1>7. \A i \in 1..Len(q) : \/ i \in 1..Len(ops) /\ q[i] = ops[i]
                             \/ i = Len(q) /\ q[i] = o
    <2> TAKE i \in 1..Len(q)
    <2>1. CASE i \in 1..Len(ops)
      <3>1. \A k \in 1..Len(ops) : q[k] = ops[k]
        BY <1>6
      <3>2. q[i] = ops[i]
        BY <2>1, <3>1, Zenon
      <3> QED
        BY <2>1, <3>2
    <2>2. CASE i \notin 1..Len(ops)
      BY <1>6, <2>2, Zenon
    <2> QED
      BY <2>1, <2>2
  <1>8. \A i \in 1..Len(ops) : ops[i].id # id /\ ops[i].id <= id
    BY <1>5
  <1>9. Distinct(e, id)
    <2>1. \A i, j \in 1..Len(ops) :
              ops[i].id = ops[j].id \/ ops[i].album = ops[j].album => i = j
      BY <1>1 DEF Distinct, ops
    <2>2. ASSUME NEW i \in 1..Len(q), NEW j \in 1..Len(q),
                 q[i].id = q[j].id \/ q[i].album = q[j].album
          PROVE  i = j
      <3>1. CASE i \in 1..Len(ops) /\ j \in 1..Len(ops)
        BY <1>6, <2>1, <2>2, <3>1
      <3>2. CASE i \notin 1..Len(ops) /\ j \notin 1..Len(ops)
        BY <1>6, <3>2
      <3>3. CASE i \in 1..Len(ops) /\ j \notin 1..Len(ops)
        BY <1>2, <1>5, <1>6, <1>7, <1>8, <2>2, <3>3
      <3>4. CASE i \notin 1..Len(ops) /\ j \in 1..Len(ops)
        BY <1>2, <1>5, <1>6, <1>7, <1>8, <2>2, <3>4
      <3> QED
        BY <3>1, <3>2, <3>3, <3>4
    <2>3. id <= id
      OBVIOUS
    <2>4. \A i \in 1..Len(q) : q[i].id <= id
      BY <1>2, <1>7, <1>8, <2>3
    <2> QED
      BY <1>4, <2>2, <2>4 DEF Distinct
  <1>10. Owned(e, reqs)
    <2> SUFFICES ASSUME NEW i \in 1..Len(q)
                 PROVE  /\ q[i].request # None => /\ q[i].request \in 1..Len(reqs)
                                                  /\ reqs[q[i].request].album = q[i].album
                        /\ q[i].request \in Latest(reqs) => q[i].dispatched /\ q[i].confirmed
                        /\ q[i].id \in RequestIds => /\ q[i].request = q[i].id
                                                     /\ q[i].id \in Latest(reqs)
      BY <1>4 DEF Owned
    <2>1. CASE i \in 1..Len(ops) /\ q[i] = ops[i]
      BY <1>1, <2>1 DEF Owned, ops
    <2>2. CASE q[i] = o
      <3>1. None \notin Latest(reqs) /\ id \notin RequestIds
        BY LatestIsPlace, IdsApart
      <3> QED
        BY <1>2, <2>2, <3>1
    <2> QED
      BY <1>7, <2>1, <2>2
  <1>11. Locked(e)
    <2>1. \A i \in 1..Len(ops) : ops[i].pending => ops[i].id = d.inflight
      BY <1>1 DEF Locked, ops
    <2>2. \A i \in 1..Len(q) : q[i].pending => q[i].id = d.inflight
      BY <1>2, <1>7, <2>1
    <2> QED
      BY <1>1, <1>4, <2>2 DEF Locked
  <1>12. Posting(e, reqs, id)
    <2> SUFFICES ASSUME IsPost(d.exchange) PROVE Posting(e, reqs, id)
      BY <1>4 DEF Posting
    <2>1. \A i \in 1..Len(ops) :
              /\ ops[i].id = d.exchange.id => ops[i].album = d.exchange.album
              /\ ops[i].id \in RequestIds => ops[i].album # d.exchange.album
      BY <1>1 DEF Posting, ops
    <2>2. d.exchange.id <= top /\ d.exchange.id \in Nat
      BY <1>1, PostName, IdsApart DEF Posting
    <2>3. id # d.exchange.id /\ d.exchange.id <= id
      BY <2>2
    <2>4. id \notin RequestIds
      BY IdsApart
    <2>5. \A i \in 1..Len(q) :
              /\ q[i].id = d.exchange.id => q[i].album = d.exchange.album
              /\ q[i].id \in RequestIds => q[i].album # d.exchange.album
      BY <1>2, <1>7, <2>1, <2>3, <2>4
    <2> QED
      BY <1>1, <1>4, <2>3, <2>5 DEF Posting
  <1>13. Joined(d, e, id)
    BY <1>4, <1>6 DEF Joined, ops
  <1> QED
    BY <1>4, <1>9, <1>10, <1>11, <1>12, <1>13 DEF Sane

LEMMA AskedOnlyIfNone ==
    ASSUME NEW album, State(album) \in {"server_only", "partial", "failed"}
    PROVE  Places(owner, album) = {}
  BY DEF State, Shown

LEMMA DownloadMoves ==
    ASSUME IInv, NEW album \in Albums, Download(album) PROVE IInv' /\ NeverReposts
  <1> DEFINE id == MaxRequests + attempts + 1
             c == [owner EXCEPT !.operations = Append(@, Attempt(id, album)),
                                !.failed = @ \ {album}]
             d == Rebuild(c)
  <1>1. PICK starts \in Outcomes : Becomes(Dispatch(d, starts))
    BY DEF Download
  <1> DEFINE e == Dispatch(d, starts)
  <1>2. /\ State(album) \in {"server_only", "partial", "failed"}
        /\ attempts < MaxAttempts /\ attempts' = attempts + 1
        /\ UNCHANGED <<optimistic, session, files, requests, sessions, faults>>
    BY DEF Download
  <1>3. Rest' /\ Top \in Nat /\ id = Top + 1 /\ id \in AttemptIds /\ Top' = id
    <2>1. attempts \in 0..MaxAttempts
      BY SaneIInv DEF Rest
    <2>2. attempts' \in 0..MaxAttempts /\ Top \in Nat /\ id = Top + 1 /\ id \in AttemptIds
          /\ Top' = id
      BY <1>2, <2>1, Numbers DEF Top, AttemptIds
    <2>3. Rest'
      BY <1>2, <2>2, SaneIInv DEF Rest
    <2> QED
      BY <2>2, <2>3
  <1>4. Becomes(e) /\ e = Dispatch(d, starts) /\ d = Rebuild(c)
    BY <1>1
  <1>5. Asks(owner, c, id, album)
    <2>1. failed \ {album} \in SUBSET Albums
      BY SaneIInv, OwnerIs, OwnerFields
    <2>2. owner.failed = failed
      BY OwnerIs
    <2> HIDE DEF owner, id
    <2> QED
      BY <2>1, <2>2 DEF Asks
  <1> HIDE DEF id, c, d, e
  <1>6. Sane(c, requests, id) /\ c.exchange = exchange /\ Joined(owner, c, id)
    <2>1. Places(owner, album) = {}
      BY <1>2, AskedOnlyIfNone
    <2>2. Sane(owner, requests, Top) /\ owner.exchange = exchange
      BY SaneIInv, OwnerIs
    <2> HIDE DEF Top
    <2> QED
      BY <1>3, <1>5, <2>1, <2>2, AskSane
  <1>7. Sane(d, requests, id) /\ Kept(d, c) /\ Kept(c, d) /\ d.exchange = exchange
    BY <1>4, <1>6, RebuildSane
  <1>8. Works(d, e, requests, id)
    BY <1>4, <1>7, DispatchWorks
  <1>9. Works(c, e, requests, id)
    <2>1. Sent(c, d, requests)
      BY <1>6, <1>7 DEF Sent
    <2>2. Works(c, d, requests, id)
      BY <1>7, <2>1 DEF Works
    <2> QED
      BY <1>8, <2>2, WorksTwice
  <1>10. owner' = e /\ exchange' = e.exchange
    <2>1. e \in Owners
      BY <1>9, SaneParts DEF Works
    <2> QED
      BY <1>4, <2>1, BecomesOwner DEF Becomes
  <1>11. Sane(owner', requests', Top')
    <2>1. requests' = requests
      BY <1>2
    <2> QED
      BY <1>3, <1>9, <1>10, <2>1 DEF Works
  <1>12. \/ exchange' = exchange
         \/ IsPost(exchange') /\ \E i \in 1..Len(c.operations) :
               /\ c.operations[i].id = exchange'.id
               /\ c.operations[i].request \notin Latest(requests)
    BY <1>6, <1>9, <1>10 DEF Works, Sent
  <1>13. ListFits'
    <2>1. CASE exchange' = exchange
      BY <1>2, <2>1, SaneIInv DEF ListFits
    <2>2. CASE IsPost(exchange')
      <3>1. ~IsList(exchange')
        BY <2>2 DEF IsPost, IsList
      <3> QED
        BY <3>1 DEF ListFits
    <2> QED
      BY <1>12, <2>1, <2>2
  <1>14. NeverReposts
    <2> SUFFICES ASSUME Posts, NEW j \in 1..Len(operations), operations[j].id = exchange'.id
                 PROVE  operations[j].request \notin Latest(requests)
      BY DEF NeverReposts
    <2>1. exchange' # exchange
      BY DEF Posts
    <2>2. PICK i \in 1..Len(c.operations) :
             /\ c.operations[i].id = exchange'.id
             /\ c.operations[i].request \notin Latest(requests)
      BY <1>12, <2>1
    <2>3. j \in 1..Len(c.operations) /\ c.operations[j].id = operations[j].id
          /\ c.operations[j].request = operations[j].request
      BY <1>6, OwnerIs DEF Joined
    <2>4. i = j
      <3>1. c.operations[i].id = c.operations[j].id
        BY <2>2, <2>3
      <3>2. Distinct(c, id)
        BY <1>6, SaneParts
      <3> QED
        BY <2>3, <3>1, <3>2 DEF Distinct
    <2> QED
      BY <2>2, <2>3, <2>4
  <1> QED
    BY <1>3, <1>11, <1>13, <1>14 DEF IInv

-----------------------------------------------------------------------------
(* The steps together, and what follows from the invariant.                *)

LEMMA NextMoves == IInv /\ [Next]_vars => IInv' /\ NeverReposts
  <1> SUFFICES ASSUME IInv, [Next]_vars PROVE IInv' /\ NeverReposts
    OBVIOUS
  <1>1. ASSUME NEW k \in Albums, Download(k) PROVE IInv' /\ NeverReposts
    BY <1>1, DownloadMoves
  <1>2. ASSUME NEW k \in Albums, RemoveAlbum(k) PROVE IInv' /\ NeverReposts
    BY <1>2, RemoveAlbumMoves
  <1>3. CASE Draw
    BY <1>3, DrawMoves
  <1>4. CASE Reboot
    BY <1>4, RebootMoves
  <1>5. CASE Pump
    BY <1>5, PumpMoves
  <1>6. CASE FinishPost
    BY <1>6, FinishPostMoves
  <1>7. CASE TimeOutPost
    BY <1>7, TimeOutPostMoves
  <1>8. CASE StartList
    BY <1>8, StartListMoves
  <1>9. CASE AnswerList
    BY <1>9, AnswerListMoves
  <1>10. CASE ListFails
    BY <1>10, ListFailsMoves
  <1>11. ASSUME NEW S \in SUBSET Albums, StartApply(S) PROVE IInv' /\ NeverReposts
    BY <1>11, StartApplyMoves
  <1>12. CASE EndApply
    BY <1>12, EndApplyMoves
  <1>13. CASE ReceivePost
    BY <1>13, ReceivePostMoves
  <1>14. CASE ServeList
    BY <1>14, ServeListMoves
  <1>15. ASSUME NEW r \in RequestIds, WorkOn(r) PROVE IInv' /\ NeverReposts
    BY <1>15, WorkOnMoves
  <1>16. CASE UNCHANGED vars
    <2>1. /\ owner' = owner /\ exchange' = exchange
          /\ UNCHANGED <<optimistic, session, files, requests, attempts, sessions, faults>>
      BY <1>16 DEF vars, deviceVars, ownerVars, bounds, owner
    <2>2. Rest'
      BY <2>1, SaneIInv DEF Rest
    <2>3. Sane(owner', requests, Top) /\ SentFrom(requests)
      BY <2>1, SaneIInv DEF SentFrom
    <2> QED
      BY <2>1, <2>2, <2>3, OwnerMoves
  <1> QED
    BY <1>1, <1>2, <1>3, <1>4, <1>5, <1>6, <1>7, <1>8, <1>9, <1>10, <1>11, <1>12, <1>13,
       <1>14, <1>15, <1>16 DEF Next

\* The invariant holds in every state that is reached.
THEOREM AlbumInvariant == Spec => []IInv
  <1>1. Init => IInv
    BY InitIInv
  <1>2. IInv /\ [Next]_vars => IInv'
    BY NextMoves
  <1> QED
    BY <1>1, <1>2, PTL DEF Spec

\* The owner's records, the exchange, the companion's requests and the bindings of an
\* apply session have their types whatever is answered, given up or restarted.
\* (lua/sync_download_state.lua, lua/sync_catalog.lua, lua/sync_runtime.lua)
THEOREM AlbumTypes == Spec => []TypeOK
  <1>1. IInv => TypeOK
    BY SaneIInv, TypeParts
  <1> QED
    BY <1>1, AlbumInvariant, PTL

\* The dispatcher is held by the attempt whose POST is in flight and by no other, even
\* if that attempt is dropped, completed or asked for again meanwhile.
\* (dispatch_inflight, dispatch_pending)
THEOREM AlwaysLockIsPost == Spec => []LockIsPost
  <1>1. IInv => LockIsPost
    <2> SUFFICES ASSUME IInv PROVE LockIsPost
      OBVIOUS
    <2>1. Locked(owner)
      BY SaneIInv, SaneParts
    <2> QED
      BY <2>1, OwnerIs DEF Locked, LockIsPost
  <1> QED
    BY <1>1, AlbumInvariant, PTL

\* An album has one attempt at most, and a durable request that of one attempt, which
\* is for the request's album, through retries, adoptions at a restart, re-orderings
\* and promotions.  (reconcile_startup, resolve_dispatch)
THEOREM AlwaysOneOwnerEach == Spec => []OneOwnerEach
  <1>1. IInv => OneOwnerEach
    <2> SUFFICES ASSUME IInv, NEW i \in 1..Len(operations)
                 PROVE  /\ Places(owner, operations[i].album) = {i}
                        /\ operations[i].request # None =>
                              /\ AttemptPlaces(owner, operations[i].request) = {i}
                              /\ requests[operations[i].request].album = operations[i].album
      BY DEF OneOwnerEach
    <2>1. /\ Sane(owner, requests, Top) /\ Distinct(owner, Top) /\ Owned(owner, requests)
          /\ owner \in Owners /\ owner.operations = operations
      BY SaneIInv, SaneParts, OwnerIs
    <2> HIDE DEF owner
    <2>2. Places(owner, operations[i].album) = {i}
      BY <2>1 DEF Places, Distinct
    <2>3. ASSUME operations[i].request # None
          PROVE  /\ AttemptPlaces(owner, operations[i].request) = {i}
                 /\ requests[operations[i].request].album = operations[i].album
      <3> DEFINE ref == operations[i].request
      <3>1. requests[ref].album = operations[i].album
        BY <2>1, <2>3 DEF Owned
      <3>2. ref \in RequestIds
        <4>1. operations[i] \in Operations
          BY <2>1, OwnerFields
        <4> QED
          BY <2>3, <4>1, OperationFields
      <3>3. i \in AttemptPlaces(owner, ref)
        BY <2>1 DEF AttemptPlaces
      <3>4. ASSUME NEW j \in AttemptPlaces(owner, ref) PROVE j = i
        <4>1. j \in 1..Len(operations) /\ operations[j].album = requests[ref].album
          BY <2>1, <3>2, NamedAlbum
        <4> QED
          BY <2>1, <3>1, <4>1 DEF Distinct
      <3> HIDE DEF ref
      <3>5. AttemptPlaces(owner, ref) = {i}
        BY <3>3, <3>4
      <3> QED
        BY <3>1, <3>5 DEF ref
    <2> QED
      BY <2>2, <2>3
  <1> QED
    BY <1>1, AlbumInvariant, PTL

\* An attempt that the companion has accepted, and whose request is its latest for the
\* album, is "never posted again": whatever lists, answers and apply sessions make of
\* the queue, and whichever attempt they promote.  (reconcile_startup,
\* rebuild_operation_indexes, try_dispatch_head)
THEOREM NeverReposted == Spec => AcceptedNeverReposted
  <1>1. IInv /\ [Next]_vars =>
            [Posts => \A i \in 1..Len(operations) :
                         operations[i].id = exchange'.id
                             => operations[i].request \notin Latest(requests)]_vars
    BY NextMoves DEF NeverReposts
  <1>2. Spec => [][Next]_vars
    BY DEF Spec
  <1> QED
    BY <1>1, <1>2, AlbumInvariant, PTL DEF AcceptedNeverReposted

\* An answer whose attempt is gone changes nothing but the exchange and the dispatcher:
\* "no album-keyed runtime mutation is safe".  (resolve_dispatch, dispatch_download)
THEOREM StaleAnswersIgnored == Spec => StaleAnswerIgnored
  <1>1. ASSUME IsPost(exchange), AttemptPlaces(owner, exchange.id) = {},
               FinishPost \/ TimeOutPost
        PROVE  UNCHANGED <<operations, shadows, downloaded, failed, optimistic>>
    <2>1. Answered(exchange.id) = {}
      BY <1>1, OwnerIs DEF AttemptPlaces, Answered
    <2>2. Becomes(Released(exchange.id)) /\ UNCHANGED optimistic
      BY <1>1, <2>1 DEF FinishPost, TimeOutPost, Resolve
    <2>3. /\ Released(exchange.id).operations = operations
          /\ Released(exchange.id).shadows = shadows
          /\ Released(exchange.id).downloaded = downloaded
          /\ Released(exchange.id).failed = failed
      BY DEF Released, owner
    <2> QED
      BY <2>2, <2>3 DEF Becomes
  <1>2. [Next]_vars => [IsPost(exchange) /\ AttemptPlaces(owner, exchange.id) = {}
                        /\ (FinishPost \/ TimeOutPost)
                            => UNCHANGED <<operations, shadows, downloaded, failed,
                                           optimistic>>]_vars
    BY <1>1
  <1>3. Spec => [][Next]_vars
    BY DEF Spec
  <1> QED
    BY <1>2, <1>3, PTL DEF StaleAnswerIgnored
=============================================================================
