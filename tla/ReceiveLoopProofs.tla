-------------------------- MODULE ReceiveLoopProofs --------------------------
(***************************************************************************)
(* The datagrams' way through the router for every batch size, queue       *)
(* length, number of pending entries and cut of the ClientHellos into      *)
(* frames and packets: borrowed pointers show what was enqueued, a session *)
(* leaves no pending entry behind, the CRYPTO stream of an entry is exact, *)
(* a ClientHello that is whole waits for a flow only, and its connection's *)
(* backend gets all of it.                                                 *)
(*                                                                         *)
(* The invariant has five parts: of the buffers and the send queue         *)
(* (RoundInv), the pending entries (PendingInv), the flow table and whose  *)
(* datagrams a round has (FlowInv), the types of what is sent (SendInv)    *)
(* and what an entry waits for (WaitInv).                                  *)
(***************************************************************************)
EXTENDS ReceiveLoop, FlowLaws, TLAPS

\* The limit of a leaf counts the time in which other leaves are prepared.
USE SMTT(30), Zenon

-----------------------------------------------------------------------------
(* Numbers *)

\* No entry up to the zeroth.
LEMMA NoneToZero == 1 .. 0 = {}
OBVIOUS

\* An entry of the second part, counted from the start of both.
LEMMA WithinSum == \A m, n \in Nat : \A i \in 1 .. n : m + i \in 1 .. m + n
OBVIOUS

-----------------------------------------------------------------------------
(* The ClientHello *)

\* Where an extension ends is a number.
LEMMA ExtensionEndType ==
  ASSUME NumberLaws, NEW S, NEW extensions \in Seq(S), \A i \in DOMAIN extensions : extensions[i].len \in Nat,
         NEW i \in DOMAIN extensions
  PROVE  ExtensionEnd(extensions, i) \in Nat
<1> DEFINE N == Len(extensions)
           add(n, x) == x + 4 + extensions[n].len
           step == [n \in 1 .. N |-> [x \in Nat |-> add(n, x)]]
           Eq(g) == g = [n \in 0 .. N |-> IF n = 0 THEN 0 ELSE g[n - 1] + 4 + extensions[n].len]
           walk == CHOOSE g : Eq(g)
<1>1. ExtensionEnd(extensions, i) = walk[i]
  BY Zenon DEF ExtensionEnd
<1>2. N \in Nat /\ DOMAIN extensions = 1 .. N
  OBVIOUS
<1>3. \A n \in 1 .. N : \A x \in Nat : add(n, x) \in Nat
  BY <1>2
<1> HIDE DEF N
<1>4. step \in [1 .. N -> [Nat -> Nat]]
  BY <1>3, Zenon
<1>5. \A n \in 1 .. N, x \in Nat : step[n][x] = x + 4 + extensions[n].len
  BY Zenon
<1> HIDE DEF step
<1>6. PICK f \in [0 .. N -> Nat] : Stepwise(f, 0, step, N)
  BY <1>2, <1>4, Zenon DEF NumberLaws, StepsLaw
<1>7. \A n \in 0 .. N : f[n] = IF n = 0 THEN 0 ELSE f[n - 1] + 4 + extensions[n].len
  <2> SUFFICES ASSUME NEW n \in 0 .. N
               PROVE  f[n] = IF n = 0 THEN 0 ELSE f[n - 1] + 4 + extensions[n].len
    BY Zenon
  <2>1. f[0] = 0
    BY <1>6, Zenon DEF Stepwise
  <2>2. CASE n # 0
    <3>1. n \in 1 .. N /\ n - 1 \in 0 .. N
      BY <1>2, <2>2
    <3>2. f[n] = step[n][f[n - 1]] /\ f[n - 1] \in Nat
      BY <1>6, <3>1, Zenon DEF Stepwise
    <3> QED
      BY <1>5, <2>2, <3>1, <3>2, Zenon
  <2> QED
    BY <2>1, <2>2, Zenon
<1>8. Eq(f)
  BY <1>7, Zenon
<1>9. Eq(walk)
  BY <1>8, Zenon
<1> HIDE DEF walk
<1>10. \A n \in 0 .. N : walk[n] = IF n = 0 THEN 0 ELSE walk[n - 1] + 4 + extensions[n].len
  BY <1>9, Zenon
<1> DEFINE P == {n \in 0 .. N : walk[n] \in Nat}
<1>11. 0 \in P
  BY <1>2, <1>10
<1>12. \A n \in 1 .. N : n - 1 \in P => n \in P
  <2> SUFFICES ASSUME NEW n \in 1 .. N, n - 1 \in P PROVE n \in P
    BY Zenon
  <2>1. walk[n - 1] \in Nat /\ extensions[n].len \in Nat
    BY <1>2, Zenon
  <2>2. n \in 0 .. N /\ n # 0
    BY <1>2
  <2>3. walk[n] = walk[n - 1] + 4 + extensions[n].len
    BY <1>10, <2>2, Zenon
  <2> QED
    BY <2>1, <2>2, <2>3
<1> HIDE DEF P
<1>13. \A n \in 0 .. N : n \in P
  BY ONLY NumberLaws, <1>2, <1>11, <1>12, Zenon DEF NumberLaws, UpToLaw
<1> QED
  BY <1>1, <1>2, <1>13 DEF P

LEMMA FirstSniFacts ==
  ASSUME NumberLaws, NEW S, NEW extensions \in Seq(S), Snis(extensions) # {}
  PROVE  FirstSni(extensions) \in DOMAIN extensions
<1> DEFINE T == Snis(extensions)
<1>1. T \subseteq Nat /\ T \subseteq DOMAIN extensions
  BY DEF Snis
<1> HIDE DEF T
<1>2. T # {}
  BY Zenon DEF T
<1>3. \E i \in T : \A j \in T : i <= j
  BY <1>1, <1>2, Zenon DEF NumberLaws, LeastLaw
<1>4. FirstSni(extensions) = CHOOSE i \in T : \A j \in T : i <= j
  BY Zenon DEF FirstSni, T
<1> QED
  BY <1>1, <1>3, <1>4, Zenon

\* The first host_name of an SNI extension is one of its names.
LEMMA SniInType ==
  ASSUME NumberLaws, NEW names, NEW extension, extension.names \in Seq([type : Nat, name : names \cup {NoName}])
  PROVE  SniIn(extension) \in names \cup {NoName}
<1> DEFINE T == {i \in DOMAIN extension.names : extension.names[i].type = 0}
<1>1. T \subseteq Nat /\ \A i \in T : extension.names[i].name \in names \cup {NoName}
  <2> DEFINE L == extension.names
             M == names \cup {NoName}
             X == [type : Nat, name : M]
  <2>1. L \in Seq(X)
    BY Zenon
  <2> HIDE DEF L, M
  <2>2. \A x \in X : x.name \in M
    BY Zenon
  <2> HIDE DEF X
  <2>3. DOMAIN L \subseteq Nat /\ \A i \in DOMAIN L : L[i] \in X
    BY ONLY <2>1, SMTT(30), Zenon
  <2> QED
    BY <2>2, <2>3, Zenon DEF L, M
<1>2. SniIn(extension) = IF T = {} THEN NoName
                         ELSE extension.names[CHOOSE i \in T : \A j \in T : i <= j].name
  BY Zenon DEF SniIn
<1> HIDE DEF T
<1>3. T # {} => \E i \in T : \A j \in T : i <= j
  BY <1>1, Zenon DEF NumberLaws, LeastLaw
<1> QED
  BY <1>1, <1>2, <1>3, Zenon

\* Once the parser has found a name it finds the same one in more bytes, and it
\* finds it from the end of the SNI extension on.
LEMMA SniFacts ==
  ASSUME NumberLaws, NEW names, NEW h \in Hellos(names), NEW n \in Nat, NEW m \in Nat, n <= m
  PROVE  /\ Sni(h, n) \in names \cup {NoName}
         /\ Sni(h, n) # NoName =>
              Snis(h.extensions) # {} /\ SniEndOf(h) <= n /\ Sni(h, m) = Sni(h, n)
         /\ Sni(h, m) # NoName /\ SniEndOf(h) <= n => Sni(h, n) = Sni(h, m)
<1> DEFINE E == h.extensions
           end == ExtensionEnd(E, FirstSni(E))
           name == SniIn(E[FirstSni(E)])
           fixed == FixedLen(h)
           message(k) == IF ~h.wrapped THEN k ELSE IF k < 5 + h.record THEN 0 ELSE h.record
           body(k) == Available(message(k) - 4, h.len)
           there(k) == Available(body(k) - fixed - 2, h.extensions_len)
           found(k) == body(k) >= fixed + 2 /\ end <= there(k)
           good == h.type = 1 /\ h.ciphers % 2 = 0 /\ Snis(E) # {}
<1>1. /\ h.wrapped \in BOOLEAN /\ h.record \in Nat /\ h.len \in Nat /\ h.extensions_len \in Nat
      /\ h.session \in Nat /\ h.ciphers \in Nat /\ h.compression \in Nat
  BY Zenon DEF Hellos
<1>2. fixed \in Nat
  BY <1>1 DEF FixedLen
<1>3. Snis(E) # {} => FirstSni(E) \in DOMAIN E /\ end \in Nat /\ name \in names \cup {NoName}
  <2> DEFINE X == Extensions(names)
  <2>1. E \in Seq(X)
    BY Zenon DEF Hellos
  <2>2. \A x \in X : x.len \in Nat /\ x.names \in Seq([type : Nat, name : names \cup {NoName}])
    BY Zenon DEF Extensions
  <2> HIDE DEF E, X
  <2> SUFFICES ASSUME Snis(E) # {}
               PROVE  FirstSni(E) \in DOMAIN E /\ end \in Nat /\ name \in names \cup {NoName}
    BY Zenon
  <2>3. FirstSni(E) \in DOMAIN E
    BY <2>1, FirstSniFacts, Zenon
  <2>4. \A i \in DOMAIN E : E[i] \in X
    BY <2>1
  <2>5. end \in Nat
    BY <2>1, <2>2, <2>3, <2>4, ExtensionEndType, Zenon
  <2>6. E[FirstSni(E)].names \in Seq([type : Nat, name : names \cup {NoName}])
    BY <2>2, <2>3, <2>4, Zenon
  <2> QED
    BY <2>3, <2>5, <2>6, SniInType, Zenon
<1>4. SniEndOf(h) = IF h.wrapped THEN 5 + h.record ELSE 4 + fixed + 2 + end
  BY Zenon DEF SniEndOf
<1>5. \A k \in Nat : /\ message(k) \in Nat /\ body(k) \in Int
                     /\ body(k) >= fixed + 2 => there(k) \in Int
  BY <1>1, <1>2 DEF Available
<1>6. \A k \in Nat : Sni(h, k) =
        IF h.type # 1 \/ h.ciphers % 2 # 0 \/ body(k) < fixed + 2 THEN NoName
        ELSE IF Snis(E) = {} THEN NoName
        ELSE IF end > there(k) THEN NoName
        ELSE name
  BY Zenon DEF Sni, SniAmong
<1>7. \A k \in Nat : Sni(h, k) = IF good /\ found(k) THEN name ELSE NoName
  <2> SUFFICES ASSUME NEW k \in Nat PROVE Sni(h, k) = IF good /\ found(k) THEN name ELSE NoName
    BY Zenon
  <2>1. CASE good /\ body(k) >= fixed + 2
    <3>1. end \in Nat /\ there(k) \in Int /\ body(k) \in Int
      BY <1>3, <1>5, <2>1, Zenon
    <3>2. Sni(h, k) = IF end > there(k) THEN NoName ELSE name
      <4>1. ~(body(k) < fixed + 2)
        BY <1>2, <2>1, <3>1
      <4> QED
        BY <1>6, <2>1, <4>1, Zenon
    <3> HIDE DEF good, name, there, end, body, fixed
    <3> QED
      BY <2>1, <3>1, <3>2
  <2>2. CASE ~(good /\ body(k) >= fixed + 2)
    <3>1. Sni(h, k) = NoName
      <4>1. h.type # 1 \/ h.ciphers % 2 # 0 \/ Snis(E) = {} \/ body(k) < fixed + 2
        BY <1>2, <1>5, <2>2
      <4> QED
        BY <1>6, <4>1, Zenon
    <3> QED
      BY <2>2, <3>1, Zenon
  <2> QED
    BY <2>1, <2>2, Zenon
<1>8. good => /\ found(n) => SniEndOf(h) <= n /\ found(m)
              /\ found(m) /\ SniEndOf(h) <= n => found(n)
  <2> SUFFICES ASSUME good
               PROVE  /\ found(n) => SniEndOf(h) <= n /\ found(m)
                      /\ found(m) /\ SniEndOf(h) <= n => found(n)
    BY Zenon
  <2>1. end \in Nat
    BY <1>3, Zenon
  <2> HIDE DEF end, fixed, good
  <2>2. CASE h.wrapped
    <3>1. SniEndOf(h) = 5 + h.record
      BY <1>4, <2>2, Zenon
    <3>2. \A k \in Nat : k < 5 + h.record => ~found(k)
      <4> SUFFICES ASSUME NEW k \in Nat, k < 5 + h.record PROVE ~found(k)
        BY Zenon
      <4>1. body(k) = Available(0 - 4, h.len)
        BY <2>2, Zenon
      <4>2. body(k) = -4
        BY <1>1, <4>1 DEF Available
      <4> HIDE DEF body
      <4> QED
        BY <1>2, <4>2
    <3>3. \A k \in Nat : k >= 5 + h.record => message(k) = h.record
      BY <1>1, <2>2
    <3>4. n >= 5 + h.record => (found(n) <=> found(m))
      <4>1. n >= 5 + h.record => message(n) = h.record /\ message(m) = h.record
        BY <1>1, <3>3
      <4>2. n >= 5 + h.record => body(n) = body(m)
        BY <4>1, Zenon
      <4> HIDE DEF message, body
      <4>3. n >= 5 + h.record => there(n) = there(m)
        BY <4>2, Zenon
      <4> HIDE DEF there
      <4> QED
        BY <4>2, <4>3, Zenon
    <3> HIDE DEF found
    <3> QED
      BY <1>1, <3>1, <3>2, <3>4
  <2>3. CASE ~h.wrapped
    <3>1. SniEndOf(h) = 4 + fixed + 2 + end
      BY <1>4, <2>3, Zenon
    <3>2. \A k \in Nat : body(k) = Available(k - 4, h.len)
      BY <2>3, Zenon
    <3> HIDE DEF body
    <3> QED
      BY <1>1, <1>2, <2>1, <3>1, <3>2 DEF Available
  <2> QED
    BY <1>1, <2>2, <2>3, Zenon
<1> HIDE DEF found, name, end
<1>9. Sni(h, n) \in names \cup {NoName}
  BY <1>3, <1>7, Zenon
<1>10. Sni(h, n) # NoName => Snis(h.extensions) # {} /\ SniEndOf(h) <= n /\ Sni(h, m) = Sni(h, n)
  BY <1>7, <1>8, Zenon
<1>11. Sni(h, m) # NoName /\ SniEndOf(h) <= n => Sni(h, n) = Sni(h, m)
  BY <1>7, <1>8, Zenon
<1> QED
  BY <1>9, <1>10, <1>11, Zenon

-----------------------------------------------------------------------------
(* The CRYPTO stream *)

\* What the interval of a stream is for: Merge looks at nothing outside it.
Bounded(s) == s.received \subseteq s.first_received .. s.last_received - 1

\* What its length is for: ContiguousLen does not look past it.
Within(s) == s.received \subseteq 0 .. s.len - 1

\* One frame of the loop of qsr_quic_extract_crypto.
TakeFrame(s, f) == IF IsCrypto(f) THEN Take(s, f) ELSE s

\* The bytes of the first n frames.
SpansUpTo(frames, n) ==
  UNION {Span(frames[i]) : i \in {j \in 1 .. n : IsCrypto(frames[j])}}

LEMMA SpansMember ==
  ASSUME NEW frames, NEW n, NEW byte
  PROVE  byte \in SpansUpTo(frames, n) <=>
           \E i \in 1 .. n : IsCrypto(frames[i]) /\ byte \in Span(frames[i])
BY Zenon DEF SpansUpTo

LEMMA NewStreamFacts ==
  /\ NewStream \in Streams /\ Bounded(NewStream) /\ Within(NewStream)
  /\ NewStream.received = {}
BY StreamAssumption DEF NewStream, Streams, Bounded, Within, Offsets

LEMMA TakeFacts ==
  ASSUME NEW s \in Streams, Bounded(s), Within(s), NEW f \in Frames, IsCrypto(f) => Fits(f)
  PROVE  /\ TakeFrame(s, f) \in Streams /\ Bounded(TakeFrame(s, f)) /\ Within(TakeFrame(s, f))
         /\ IsCrypto(f) => TakeFrame(s, f).received = s.received \cup Span(f)
         /\ ~IsCrypto(f) => TakeFrame(s, f) = s
<1>1. CASE ~IsCrypto(f)
  BY <1>1, Zenon DEF TakeFrame
<1>2. CASE IsCrypto(f)
  <2> DEFINE u == TakeFrame(s, f)
             stop == f.offset + f.len
  <2>1. f.offset \in Nat /\ f.len \in Nat /\ stop \in 0 .. MaxHello /\ f.offset <= stop
    BY <1>2, StreamAssumption DEF Frames, Fits
  <2>2. /\ s.received \subseteq Offsets /\ s.len \in 0 .. MaxHello
        /\ s.first_received \in 0 .. MaxHello /\ s.last_received \in 0 .. MaxHello
    BY Zenon DEF Streams
  <2>3. u = [received |-> s.received \cup Span(f), len |-> Larger(s.len, stop),
             first_received |-> Smaller(s.first_received, f.offset),
             last_received |-> Larger(s.last_received, stop)]
    BY <1>2, Zenon DEF TakeFrame, Take
  <2>4. Span(f) = f.offset .. stop - 1
    BY <2>1 DEF Span
  <2> HIDE DEF stop
  <2>5. Span(f) \subseteq Offsets
    BY <2>1, <2>4, StreamAssumption DEF Offsets
  <2>6. u \in Streams
    BY <2>1, <2>2, <2>3, <2>5, StreamAssumption DEF Streams, Smaller, Larger
  <2>7. Bounded(u)
    <3>1. ASSUME NEW i \in u.received PROVE i \in u.first_received .. u.last_received - 1
      <4>1. i \in s.received \/ i \in f.offset .. stop - 1
        BY <2>3, <2>4, <3>1
      <4>2. i \in s.received => i \in s.first_received .. s.last_received - 1
        BY Zenon DEF Bounded
      <4>3. /\ u.first_received = Smaller(s.first_received, f.offset)
            /\ u.last_received = Larger(s.last_received, stop)
        BY <2>3
      <4> QED
        BY <2>1, <2>2, <4>1, <4>2, <4>3, StreamAssumption DEF Smaller, Larger
    <3> QED
      BY <3>1, Zenon DEF Bounded
  <2>8. Within(u)
    <3>1. ASSUME NEW i \in u.received PROVE i \in 0 .. u.len - 1
      <4>1. i \in s.received \/ i \in f.offset .. stop - 1
        BY <2>3, <2>4, <3>1
      <4>2. i \in s.received => i \in 0 .. s.len - 1
        BY Zenon DEF Within
      <4>3. u.len = Larger(s.len, stop)
        BY <2>3
      <4> QED
        BY <2>1, <2>2, <4>1, <4>2, <4>3, StreamAssumption DEF Larger
    <3> QED
      BY <3>1, Zenon DEF Within
  <2> QED
    BY <1>2, <2>3, <2>6, <2>7, <2>8
<1> QED
  BY <1>1, <1>2, Zenon

\* A packet's stream has the bytes of its CRYPTO frames, in any order.
LEMMA ExtractFacts ==
  ASSUME NumberLaws, NEW frames \in Seq(Frames), Extracts(frames), NEW s, s = Extract(frames)
  PROVE  s \in Streams /\ Bounded(s) /\ Within(s) /\ s.received = SpansUpTo(frames, Len(frames))
<1> DEFINE N == Len(frames)
           T == {u \in Streams : Bounded(u) /\ Within(u)}
           step == [n \in 1 .. N |-> [u \in T |-> TakeFrame(u, frames[n])]]
           Eq(g) == g = [n \in 0 .. N |-> IF n = 0 THEN NewStream
                                          ELSE TakeFrame(g[n - 1], frames[n])]
           walk == CHOOSE g : Eq(g)
<1>1. s = walk[N]
  BY Zenon DEF Extract, TakeFrame
<1>2. N \in Nat /\ DOMAIN frames = 1 .. N
  OBVIOUS
<1>3. \A n \in 1 .. N : frames[n] \in Frames /\ (IsCrypto(frames[n]) => Fits(frames[n]))
  BY <1>2 DEF Extracts
<1>4. NewStream \in T /\ NewStream.received = {}
  BY NewStreamFacts, Zenon
<1>5. \A n \in 1 .. N : \A u \in T :
        /\ TakeFrame(u, frames[n]) \in T
        /\ IsCrypto(frames[n]) =>
             TakeFrame(u, frames[n]).received = u.received \cup Span(frames[n])
        /\ ~IsCrypto(frames[n]) => TakeFrame(u, frames[n]) = u
  BY <1>3, TakeFacts, Zenon
<1> HIDE DEF N, T
<1>6. step \in [1 .. N -> [T -> T]]
  BY <1>5, Zenon
<1>7. \A n \in 1 .. N, u \in T : step[n][u] = TakeFrame(u, frames[n])
  BY Zenon
<1> HIDE DEF step
<1>8. \E g : Eq(g)
  <2>1. PICK g \in [0 .. N -> T] : Stepwise(g, NewStream, step, N)
    BY <1>2, <1>4, <1>6, Zenon DEF NumberLaws, StepsLaw
  <2>2. \A n \in 0 .. N : g[n] = IF n = 0 THEN NewStream ELSE TakeFrame(g[n - 1], frames[n])
    BY <2>1, <1>2, <1>7 DEF Stepwise
  <2>3. Eq(g)
    BY <2>2, Zenon
  <2> QED
    BY <2>3, Zenon
<1>9. Eq(walk)
  BY <1>8, Zenon
<1> HIDE DEF walk
<1>10. walk[0] = NewStream /\ \A n \in 1 .. N : walk[n] = TakeFrame(walk[n - 1], frames[n])
  <2>1. \A n \in 0 .. N : walk[n] = IF n = 0 THEN NewStream ELSE TakeFrame(walk[n - 1], frames[n])
    BY <1>9, Zenon
  <2> QED
    BY <2>1, <1>2
<1> DEFINE P == {n \in 0 .. N : walk[n] \in T /\ walk[n].received = SpansUpTo(frames, n)}
<1>11. 0 \in P
  <2>1. 1 .. 0 = {}
    OBVIOUS
  <2>2. SpansUpTo(frames, 0) = {}
    BY ONLY <2>1, SpansMember, Zenon
  <2>3. walk[0] \in T /\ walk[0].received = SpansUpTo(frames, 0)
    BY ONLY <1>4, <1>10, <2>2, Zenon
  <2>4. 0 \in 0 .. N
    BY <1>2
  <2> QED
    BY ONLY <2>3, <2>4, Zenon
<1>12. \A n \in 1 .. N : n - 1 \in P => n \in P
  <2> SUFFICES ASSUME NEW n \in 1 .. N, n - 1 \in P PROVE n \in P
    BY Zenon
  <2>1. walk[n - 1] \in T /\ walk[n - 1].received = SpansUpTo(frames, n - 1)
    BY Zenon
  <2>2. walk[n] = TakeFrame(walk[n - 1], frames[n])
    BY <1>10, Zenon
  <2>3. 1 .. n = (1 .. n - 1) \cup {n}
    BY <1>2
  <2>4. SpansUpTo(frames, n) = IF IsCrypto(frames[n])
                               THEN SpansUpTo(frames, n - 1) \cup Span(frames[n])
                               ELSE SpansUpTo(frames, n - 1)
    <3>1. \A byte : byte \in SpansUpTo(frames, n) <=>
            \/ byte \in SpansUpTo(frames, n - 1)
            \/ IsCrypto(frames[n]) /\ byte \in Span(frames[n])
      BY ONLY <2>3, SpansMember, Zenon
    <3> QED
      BY ONLY <3>1, Zenon
  <2>5. walk[n] \in T /\ walk[n].received = SpansUpTo(frames, n)
    BY ONLY <1>5, <2>1, <2>2, <2>4, n \in 1 .. N, Zenon
  <2>6. n \in 0 .. N
    BY <1>2
  <2> QED
    BY ONLY <2>5, <2>6, Zenon
<1>13. walk[N] \in T /\ walk[N].received = SpansUpTo(frames, N)
  <2> HIDE DEF P
  <2>1. \A n \in 0 .. N : n \in P
    BY ONLY NumberLaws, <1>2, <1>11, <1>12, Zenon DEF NumberLaws, UpToLaw
  <2> QED
    BY <1>2, <2>1 DEF P
<1> QED
  BY <1>1, <1>13, Zenon DEF T, N

\* Nothing of the packet's stream is outside what Merge looks at.
LEMMA MergeFacts ==
  ASSUME NEW dest \in Streams, Within(dest), NEW src \in Streams, Bounded(src), Within(src)
  PROVE  /\ Merge(dest, src) \in Streams /\ Within(Merge(dest, src))
         /\ Merge(dest, src).received = dest.received \cup src.received
<1> DEFINE start == IF src.first_received < MaxHello THEN src.first_received ELSE 0
           end == Smaller(src.last_received, MaxHello)
<1>1. /\ src.received \subseteq Offsets /\ dest.received \subseteq Offsets
      /\ src.first_received \in 0 .. MaxHello /\ dest.first_received \in 0 .. MaxHello
      /\ src.last_received \in 0 .. MaxHello /\ dest.last_received \in 0 .. MaxHello
      /\ src.len \in 0 .. MaxHello /\ dest.len \in 0 .. MaxHello
  BY Zenon DEF Streams
<1>2. \A i \in src.received : i \in start .. end - 1
  BY <1>1, StreamAssumption DEF Bounded, Smaller
<1>3. src.received \cap (start .. end - 1) = src.received
  BY <1>2, Zenon
<1>4. Merge(dest, src) =
        [received |-> dest.received \cup (src.received \cap (start .. end - 1)),
         len |-> Larger(src.len, dest.len),
         first_received |-> Smaller(src.first_received, dest.first_received),
         last_received |-> Larger(src.last_received, dest.last_received)]
  BY Zenon DEF Merge
<1> HIDE DEF start, end
<1>5. /\ Larger(src.len, dest.len) \in 0 .. MaxHello
      /\ Smaller(src.first_received, dest.first_received) \in 0 .. MaxHello
      /\ Larger(src.last_received, dest.last_received) \in 0 .. MaxHello
  BY <1>1, Zenon DEF Smaller, Larger
<1>6. Within(Merge(dest, src))
  <2>1. ASSUME NEW i \in dest.received \cup src.received PROVE i \in 0 .. Larger(src.len, dest.len) - 1
    BY <1>1 DEF Within, Larger
  <2> QED
    BY <1>3, <1>4, <2>1 DEF Within
<1> QED
  BY <1>1, <1>3, <1>4, <1>5, <1>6 DEF Streams

\* The contiguous length is the end of the longest run of bytes from the start.
LEMMA ContiguousFacts ==
  ASSUME NumberLaws, NEW s \in Streams, Within(s), NEW n, n = ContiguousLen(s)
  PROVE  /\ n \in 0 .. MaxHello /\ 0 .. n - 1 \subseteq s.received
         /\ \A k \in Nat : 0 .. k - 1 \subseteq s.received => k <= n
<1> DEFINE limit == Smaller(s.len, MaxHello)
           T == {k \in 0 .. limit : k = limit \/ k \notin s.received}
<1>1. s.len \in 0 .. MaxHello /\ limit = s.len /\ \A i \in s.received : i \in 0 .. s.len - 1
  BY StreamAssumption DEF Streams, Smaller, Within
<1> HIDE DEF limit
<1>2. PICK x \in T : \A y \in T : x <= y
  <2>1. T \subseteq Nat /\ limit \in T
    BY <1>1, StreamAssumption
  <2> HIDE DEF T
  <2> QED
    BY <2>1, Zenon DEF NumberLaws, LeastLaw
<1>3. 0 .. x - 1 \subseteq s.received
  <2> SUFFICES ASSUME NEW i \in 0 .. x - 1, i \notin s.received PROVE FALSE
    BY Zenon
  <2>1. i \in T /\ i < x
    BY <1>1, <1>2, StreamAssumption
  <2> HIDE DEF T
  <2> QED
    BY <1>2, <2>1
<1>4. \E k \in 0 .. limit : 0 .. k - 1 \subseteq s.received /\ (k < limit => k \notin s.received)
  <2>1. x \in 0 .. limit /\ (x < limit => x \notin s.received)
    BY <1>1, StreamAssumption
  <2> QED
    BY <1>3, <2>1, Zenon
<1>5. n = CHOOSE k \in 0 .. limit :
            0 .. k - 1 \subseteq s.received /\ (k < limit => k \notin s.received)
  BY Zenon DEF ContiguousLen, limit
<1>6. /\ n \in 0 .. limit /\ 0 .. n - 1 \subseteq s.received
      /\ n < limit => n \notin s.received
  BY <1>4, <1>5, Zenon
<1>7. ASSUME NEW k \in Nat, 0 .. k - 1 \subseteq s.received PROVE k <= n
  <2> SUFFICES ASSUME n < k PROVE FALSE
    BY <1>1, <1>6, StreamAssumption
  <2>1. n \in 0 .. k - 1
    BY <1>1, <1>6, StreamAssumption
  <2>2. n \in s.received
    BY <1>7, <2>1, Zenon
  <2> QED
    BY <1>1, <1>6, <2>2, StreamAssumption
<1> QED
  BY <1>1, <1>6, <1>7, StreamAssumption

-----------------------------------------------------------------------------
(* The invariants *)

IsInitial(d) == d.kind = "initial" => d.client \in Clients /\ d \in Initials(d.client)

\* Between two datagrams the queue borrows from receive buffers only, those of
\* the datagrams handled in this round.
Borrowed(item, k) == item.entry = 0 /\ item.i \in 1 .. k - 1 /\ recv[item.i] = item.of

RoundInv ==
  /\ round = [next |-> round.next, last |-> round.last]
  /\ round.next \in Nat \ {0} /\ round.last \in 0 .. Segments /\ round.next <= round.last + 1
  /\ \E S : recv \in [Buffers -> S]
  /\ \A i \in 1 .. round.last : IsInitial(recv[i])
  /\ round = Idle => queue = <<>>
  /\ \E S : queue \in Seq(S)
  /\ \A n \in DOMAIN queue : Borrowed(queue[n], round.next)

\* The stream of an entry has the bytes of its packets, and its client's only.
EntryFine(entry) ==
  /\ \A i \in DOMAIN entry.packets :
       /\ entry.packets[i] \in Initials(entry.client)
       /\ Carries(entry.packets[i]) \subseteq entry.crypto.received
  /\ entry.crypto.received \subseteq Carried(Initials(entry.client))
  /\ Within(entry.crypto)

PendingInv ==
  /\ pending \in [Entries -> Entry \cup {Unused}]
  /\ next_evict \in 0 .. MaxPending - 1 /\ now \in Nat
  /\ \A e, f \in Entries :
       pending[e] # Unused /\ pending[f] # Unused /\ pending[e].client = pending[f].client
         => e = f
  /\ \A e \in Entries : pending[e] # Unused =>
       pending[e].client \notin known /\ EntryFine(pending[e])

-----------------------------------------------------------------------------
(* The bytes of packets *)

LEMMA InitialFacts ==
  ASSUME NEW c \in Clients, NEW d \in Initials(c)
  PROVE  /\ d \in Datagrams /\ d.client = c /\ d.kind = "initial"
         /\ FramesOf(d) \in Seq(Frames)
         /\ Carries(d) = SpansUpTo(FramesOf(d), Len(FramesOf(d)))
         /\ Carries(d) \subseteq Carried(Initials(c))
<1>1. PICK part \in DOMAIN PacketsOf[c] : d = [kind |-> "initial", client |-> c, part |-> part]
  BY Zenon DEF Initials
<1>2. PacketsOf[c] \in Seq(Seq(Frames))
  BY LoopAssumption, Zenon
<1>3. part \in Nat /\ PacketsOf[c][part] \in Seq(Frames)
  BY <1>2
<1>4. d \in Datagrams /\ d.client = c /\ d.kind = "initial" /\ FramesOf(d) = PacketsOf[c][part]
  BY <1>1, <1>3, Zenon DEF Datagrams, FramesOf
<1>5. DOMAIN FramesOf(d) = 1 .. Len(FramesOf(d))
  BY <1>3, <1>4
<1>6. Carries(d) = SpansUpTo(FramesOf(d), Len(FramesOf(d)))
  BY ONLY <1>5, Zenon DEF Carries, SpansUpTo
<1>7. Carries(d) \subseteq Carried(Initials(c))
  <2>1. d \in {e \in Initials(c) : e.kind = "initial"}
    BY <1>4, Zenon
  <2> QED
    BY ONLY <2>1, Zenon DEF Carried
<1> QED
  BY <1>3, <1>4, <1>6, <1>7, Zenon

LEMMA EntryOfFacts ==
  ASSUME NumberLaws, PendingInv, NEW c
  PROVE  /\ EntryOf(c) \in Entries
         /\ \A f \in Entries : pending[f] # Unused /\ pending[f].client = c => f = EntryOf(c)
<1> DEFINE mine == {e \in Entries : pending[e] # Unused /\ pending[e].client = c}
           free == {e \in Entries : pending[e] = Unused}
           First(E) == CHOOSE e \in E : \A other \in E : e <= other
<1>1. EntryOf(c) = IF mine # {} THEN First(mine) ELSE IF free # {} THEN First(free)
                   ELSE next_evict + 1
  BY Zenon DEF EntryOf
<1>2. MaxPending \in Nat \ {0}
  BY LoopAssumption, Zenon
<1>3. ASSUME NEW E, E \subseteq Entries, E # {} PROVE First(E) \in E
  <2>1. E \subseteq Nat
    BY <1>2, <1>3 DEF Entries
  <2>2. \E e \in E : \A other \in E : e <= other
    BY <1>3, <2>1, Zenon DEF NumberLaws, LeastLaw
  <2> QED
    BY <2>2, Zenon
<1> HIDE DEF First
<1>4. CASE mine # {}
  <2>1. EntryOf(c) \in mine
    BY <1>1, <1>3, <1>4, Zenon
  <2> QED
    BY <2>1, Zenon DEF PendingInv
<1>5. CASE mine = {} /\ free # {}
  <2>1. EntryOf(c) \in free
    BY <1>1, <1>3, <1>5, Zenon
  <2> QED
    BY <1>5, <2>1, Zenon
<1>6. CASE mine = {} /\ free = {}
  <2>1. EntryOf(c) \in Entries
    BY <1>1, <1>2, <1>6 DEF PendingInv, Entries
  <2> QED
    BY <1>6, <2>1, Zenon
<1> QED
  BY <1>4, <1>5, <1>6, Zenon

LEMMA MergedFine ==
  ASSUME NumberLaws, PendingInv, NEW c \in Clients, NEW d \in Initials(c), Extracts(FramesOf(d)),
         NEW e \in Entries, NEW m, m = Merged(e, d)
  PROVE  m \in Entry /\ m.client = c /\ EntryFine(m)
<1> DEFINE fresh == pending[e] = Unused \/ Displaces(e, d.client)
           old == IF fresh THEN <<>> ELSE pending[e].packets
           stream == IF fresh THEN NewStream ELSE pending[e].crypto
           got == Extract(FramesOf(d))
<1>1. /\ d \in Datagrams /\ d.client = c /\ FramesOf(d) \in Seq(Frames)
      /\ Carries(d) = SpansUpTo(FramesOf(d), Len(FramesOf(d)))
      /\ Carries(d) \subseteq Carried(Initials(c))
  BY InitialFacts, Zenon
<1>2. got \in Streams /\ Bounded(got) /\ Within(got) /\ got.received = Carries(d)
  BY <1>1, ExtractFacts, Zenon
<1>3. m = [client |-> d.client, last_seen |-> now, packets |-> Stored(old, d),
           crypto |-> Merge(stream, got)]
  BY Zenon DEF Merged
<1>4. /\ old \in Seq(Datagrams) /\ stream \in Streams /\ Within(stream)
      /\ stream.received \subseteq Carried(Initials(c))
      /\ \A i \in DOMAIN old : old[i] \in Initials(c) /\ Carries(old[i]) \subseteq stream.received
  <2>1. CASE fresh
    <3>1. old = <<>> /\ stream = NewStream
      BY <2>1, Zenon
    <3>2. <<>> \in Seq(Datagrams) /\ DOMAIN <<>> = {}
      OBVIOUS
    <3> HIDE DEF old, stream
    <3> QED
      BY ONLY <3>1, <3>2, NewStreamFacts, Zenon
  <2>2. CASE ~fresh
    <3>1. pending[e] \in Entry /\ EntryFine(pending[e]) /\ pending[e].client = c
      BY <1>1, <2>2, Zenon DEF PendingInv, Displaces
    <3>2. old = pending[e].packets /\ stream = pending[e].crypto
      BY <2>2, Zenon
    <3> QED
      BY <3>1, <3>2, Zenon DEF Entry, EntryFine
  <2> QED
    BY <2>1, <2>2, Zenon
<1> HIDE DEF fresh, old, stream, got
<1>5. /\ Merge(stream, got) \in Streams /\ Within(Merge(stream, got))
      /\ Merge(stream, got).received = stream.received \cup Carries(d)
  BY <1>2, <1>4, MergeFacts, Zenon
<1>6. /\ Stored(old, d) \in Seq(Datagrams)
      /\ \A i \in DOMAIN Stored(old, d) :
           Stored(old, d)[i] = d \/ (i \in DOMAIN old /\ Stored(old, d)[i] = old[i])
  <2>1. old \in Seq(Datagrams) /\ d \in Datagrams
    BY <1>1, <1>4, Zenon
  <2> QED
    BY ONLY <2>1, SMTT(30), Zenon DEF Stored
<1>7. m \in Entry /\ m.client = c
  BY <1>1, <1>3, <1>5, <1>6 DEF Entry, PendingInv
<1>8. /\ m.packets = Stored(old, d) /\ Within(m.crypto)
      /\ m.crypto.received = stream.received \cup Carries(d)
  BY <1>3, <1>5
<1>9. EntryFine(m)
  BY <1>1, <1>4, <1>6, <1>7, <1>8, Zenon DEF EntryFine
<1> QED
  BY <1>7, <1>9, Zenon

-----------------------------------------------------------------------------
(* The packets of an entry *)

\* No client sends more different Initials than an entry has room for.
AllFit == \A c \in Clients : Len(PacketsOf[c]) <= MaxPackets

\* Then every byte of an entry's stream is one of the packets it has stored.
Stores(entry) ==
  /\ \A i, j \in DOMAIN entry.packets : entry.packets[i] = entry.packets[j] => i = j
  /\ \A byte \in entry.crypto.received :
       \E i \in DOMAIN entry.packets : byte \in Carries(entry.packets[i])
StoreInv == \A e \in Entries : pending[e] # Unused => Stores(pending[e])

LEMMA RoomForPacket ==
  ASSUME NumberLaws, AllFit, NEW c \in Clients, NEW d \in Initials(c), NEW packets \in Seq(Datagrams),
         \A i \in DOMAIN packets : packets[i] \in Initials(c) /\ packets[i] # d,
         \A i, j \in DOMAIN packets : packets[i] = packets[j] => i = j
  PROVE  Len(packets) < MaxPackets
<1> DEFINE N == Len(PacketsOf[c])
           m == Len(packets)
           f == [i \in 1 .. m + 1 |-> IF i = m + 1 THEN d.part ELSE packets[i].part]
<1>1. PacketsOf[c] \in Seq(Seq(Frames)) /\ N <= MaxPackets /\ MaxPackets \in Nat
  BY LoopAssumption, Zenon DEF AllFit
<1>2. N \in Nat /\ DOMAIN PacketsOf[c] = 1 .. N /\ m \in Nat /\ DOMAIN packets = 1 .. m
  BY <1>1
<1>3. \A x \in Initials(c) :
        x.part \in 1 .. N /\ x = [kind |-> "initial", client |-> c, part |-> x.part]
  BY <1>2 DEF Initials
<1>4. \A x, y \in Initials(c) : x.part = y.part => x = y
  BY ONLY <1>3, Zenon
<1>5. /\ \A i \in 1 .. m : packets[i].part \in 1 .. N /\ packets[i].part # d.part
      /\ \A i, j \in 1 .. m : packets[i].part = packets[j].part => i = j
      /\ d.part \in 1 .. N
  BY <1>2, <1>3, <1>4, Zenon
<1> HIDE DEF N, m
<1>6. f \in [1 .. m + 1 -> 1 .. N]
  BY <1>2, <1>5
<1>7. \A i, j \in 1 .. m + 1 : f[i] = f[j] => i = j
  BY <1>2, <1>5
<1> HIDE DEF f
<1>8. Into(f, m + 1, N)
  BY <1>6, Zenon DEF Into
<1>9. N < m + 1 => \E i, j \in 1 .. m + 1 : i # j /\ f[i] = f[j]
  BY <1>2, <1>8 DEF NumberLaws, PigeonLaw
<1>10. ~(N < m + 1)
  BY <1>7, <1>9, Zenon
<1> QED
  BY <1>1, <1>2, <1>10 DEF m, N

LEMMA MergedStores ==
  ASSUME NumberLaws, AllFit, PendingInv, StoreInv, NEW c \in Clients, NEW d \in Initials(c),
         Extracts(FramesOf(d)), NEW e \in Entries, NEW m, m = Merged(e, d)
  PROVE  Stores(m)
<1> DEFINE fresh == pending[e] = Unused \/ Displaces(e, d.client)
           old == IF fresh THEN <<>> ELSE pending[e].packets
           stream == IF fresh THEN NewStream ELSE pending[e].crypto
           got == Extract(FramesOf(d))
<1>1. /\ d \in Datagrams /\ d.client = c /\ FramesOf(d) \in Seq(Frames)
      /\ Carries(d) = SpansUpTo(FramesOf(d), Len(FramesOf(d)))
  BY InitialFacts, Zenon
<1>2. got \in Streams /\ Bounded(got) /\ Within(got) /\ got.received = Carries(d)
  BY <1>1, ExtractFacts, Zenon
<1>3. m = [client |-> d.client, last_seen |-> now, packets |-> Stored(old, d),
           crypto |-> Merge(stream, got)]
  BY Zenon DEF Merged
<1>4. /\ old \in Seq(Datagrams) /\ stream \in Streams /\ Within(stream)
      /\ \A i \in DOMAIN old : old[i] \in Initials(c)
      /\ \A i, j \in DOMAIN old : old[i] = old[j] => i = j
      /\ \A byte \in stream.received : \E i \in DOMAIN old : byte \in Carries(old[i])
  <2>1. CASE fresh
    <3>1. old = <<>> /\ stream = NewStream
      BY <2>1, Zenon
    <3>2. <<>> \in Seq(Datagrams) /\ DOMAIN <<>> = {}
      OBVIOUS
    <3> HIDE DEF old, stream
    <3> QED
      BY ONLY <3>1, <3>2, NewStreamFacts, Zenon
  <2>2. CASE ~fresh
    <3>1. pending[e] \in Entry /\ EntryFine(pending[e]) /\ pending[e].client = c /\ Stores(pending[e])
      BY <1>1, <2>2, Zenon DEF PendingInv, Displaces, StoreInv
    <3>2. old = pending[e].packets /\ stream = pending[e].crypto
      BY <2>2, Zenon
    <3> QED
      BY <3>1, <3>2, Zenon DEF Entry, EntryFine, Stores
  <2> QED
    BY <2>1, <2>2, Zenon
<1> HIDE DEF fresh, old, stream, got
<1>5. Merge(stream, got).received = stream.received \cup Carries(d)
  BY <1>2, <1>4, MergeFacts, Zenon
<1>6. m.packets = Stored(old, d) /\ m.crypto.received = stream.received \cup Carries(d)
  BY ONLY <1>3, <1>5, Zenon
<1>7. CASE \E i \in DOMAIN old : old[i] = d
  <2>1. m.packets = old
    BY <1>6, <1>7, Zenon DEF Stored
  <2> QED
    BY <1>4, <1>6, <1>7, <2>1, Zenon DEF Stores
<1>8. CASE \A i \in DOMAIN old : old[i] # d
  <2>1. Len(old) < MaxPackets
    BY <1>4, <1>8, RoomForPacket, Zenon
  <2>2. Len(old) \in Nat /\ MaxPackets \in Nat
    BY ONLY <1>4, LoopAssumption, SMTT(30), Zenon
  <2>3. m.packets = Append(old, d)
    BY ONLY <1>6, <1>8, <2>1, <2>2, SMTT(30), Zenon DEF Stored
  <2> DEFINE k == Len(old) + 1
  <2>4. /\ DOMAIN m.packets = DOMAIN old \cup {k} /\ k \notin DOMAIN old
        /\ \A i \in DOMAIN old : m.packets[i] = old[i]
        /\ m.packets[k] = d
    BY ONLY <1>1, <1>4, <2>2, <2>3, SMTT(30), Zenon
  <2> HIDE DEF k
  <2>5. \A i, j \in DOMAIN m.packets : m.packets[i] = m.packets[j] => i = j
    BY ONLY <1>4, <1>8, <2>4, Zenon
  <2>6. \A byte \in m.crypto.received :
          \E i \in DOMAIN m.packets : byte \in Carries(m.packets[i])
    <3> SUFFICES ASSUME NEW byte \in m.crypto.received
                 PROVE  \E i \in DOMAIN m.packets : byte \in Carries(m.packets[i])
      BY Zenon
    <3>1. CASE byte \in Carries(d)
      BY ONLY <3>1, <2>4, Zenon
    <3>2. CASE byte \in stream.received
      <4>1. PICK i \in DOMAIN old : byte \in Carries(old[i])
        BY <1>4, <3>2, Zenon
      <4>2. i \in DOMAIN m.packets /\ byte \in Carries(m.packets[i])
        BY <2>4, <4>1, Zenon
      <4> QED
        BY ONLY <4>2, Zenon
    <3> QED
      BY <1>6, <3>1, <3>2, Zenon
  <2> QED
    BY ONLY <2>5, <2>6, Zenon DEF Stores
<1> QED
  BY <1>7, <1>8, Zenon

-----------------------------------------------------------------------------
(* The pending entries *)

LEMMA EnteredFine ==
  ASSUME NumberLaws, PendingInv, NEW c \in Clients, c \notin known, NEW d \in Initials(c),
         Extracts(FramesOf(d)), NEW e, e = EntryOf(c), NEW entries, entries = Entered(e, d)
  PROVE  /\ e \in Entries /\ entries[e] \in Entry /\ entries[e] # Unused /\ entries[e].client = c
         /\ entries[e] = Merged(e, d)
         /\ EntryFine(entries[e])
         /\ entries \in [Entries -> Entry \cup {Unused}]
         /\ \A f \in Entries : f # e =>
              entries[f] = pending[f] /\ (pending[f] # Unused => pending[f].client # c)
<1>1. e \in Entries /\ \A f \in Entries : pending[f] # Unused /\ pending[f].client = c => f = e
  BY EntryOfFacts, Zenon
<1>2. Merged(e, d) \in Entry /\ Merged(e, d).client = c /\ EntryFine(Merged(e, d))
  BY <1>1, MergedFine, Zenon
<1>3. entries = [pending EXCEPT ![e] = Merged(e, d)] /\ pending \in [Entries -> Entry \cup {Unused}]
  BY Zenon DEF Entered, PendingInv
<1>4. /\ entries[e] = Merged(e, d) /\ entries \in [Entries -> Entry \cup {Unused}]
      /\ \A f \in Entries : f # e => entries[f] = pending[f]
  BY <1>1, <1>2, <1>3, Zenon
<1> QED
  BY <1>1, <1>2, <1>4, EntryAssumption, Zenon

LEMMA EvictCursor ==
  ASSUME PendingInv, NEW e, NEW c
  PROVE  NextEvict(e, c) \in 0 .. MaxPending - 1
BY LoopAssumption DEF PendingInv, NextEvict

\* The entry is kept, by a client that gets no session.
LEMMA PendingKept ==
  ASSUME NumberLaws, PendingInv, NEW c \in Clients, c \notin known, NEW d \in Initials(c),
         Extracts(FramesOf(d)), pending' = Entered(EntryOf(c), d),
         next_evict' = NextEvict(EntryOf(c), c), now' = now, known' = known
  PROVE  PendingInv'
<1> DEFINE e == EntryOf(c)
<1>1. /\ e \in Entries /\ pending'[e] # Unused /\ pending'[e].client = c /\ EntryFine(pending'[e])
      /\ pending' \in [Entries -> Entry \cup {Unused}]
      /\ \A f \in Entries : f # e =>
           pending'[f] = pending[f] /\ (pending[f] # Unused => pending[f].client # c)
  BY EnteredFine
<1>2. next_evict' \in 0 .. MaxPending - 1
  BY EvictCursor, Zenon
<1> HIDE DEF e
<1>3. ASSUME NEW f \in Entries, NEW g \in Entries, pending'[f] # Unused, pending'[g] # Unused,
             pending'[f].client = pending'[g].client
      PROVE  f = g
  BY <1>1, <1>3, Zenon DEF PendingInv
<1>4. ASSUME NEW f \in Entries, pending'[f] # Unused
      PROVE  pending'[f].client \notin known /\ EntryFine(pending'[f])
  BY <1>1, <1>4, Zenon DEF PendingInv
<1> QED
  BY <1>1, <1>2, <1>3, <1>4, Zenon DEF PendingInv

\* Entries only go.
LEMMA PendingShrinks ==
  ASSUME PendingInv,
         pending' \in [Entries -> Entry \cup {Unused}],
         \A f \in Entries : pending'[f] = Unused \/ pending'[f] = pending[f],
         next_evict' \in 0 .. MaxPending - 1, now' \in Nat,
         \A f \in Entries : pending'[f] # Unused => pending'[f].client \notin known'
  PROVE  PendingInv'
<1>1. ASSUME NEW f \in Entries, NEW g \in Entries, pending'[f] # Unused, pending'[g] # Unused,
             pending'[f].client = pending'[g].client
      PROVE  f = g
  BY <1>1, Zenon DEF PendingInv
<1>2. ASSUME NEW f \in Entries, pending'[f] # Unused
      PROVE  EntryFine(pending'[f])
  BY <1>2, Zenon DEF PendingInv
<1> QED
  BY <1>1, <1>2, Zenon DEF PendingInv

\* The datagram at hand is what the round received.
LEMMA DatagramFacts ==
  ASSUME RoundInv, Advance, Datagram.kind = "initial"
  PROVE  Datagram.client \in Clients /\ Datagram \in Initials(Datagram.client)
BY DEF RoundInv, Advance, Datagram, IsInitial

LEMMA PendingStep ==
  ASSUME NumberLaws, RoundInv, PendingInv, [Next]_vars
  PROVE  PendingInv'
<1> DEFINE c == Datagram.client
           e == EntryOf(c)
<1>1. CASE BufferInitial
  <2>1. /\ Advance /\ Datagram.kind = "initial" /\ c \notin known /\ Extracts(FramesOf(Datagram))
        /\ pending' = Entered(e, Datagram) /\ next_evict' = NextEvict(e, c)
        /\ known' = known /\ now' = now
    BY <1>1, Zenon DEF BufferInitial, Advance
  <2>2. c \in Clients /\ Datagram \in Initials(c)
    BY <2>1, DatagramFacts, Zenon
  <2> HIDE DEF c
  <2> QED
    BY <2>1, <2>2, PendingKept, Zenon
<1>2. CASE \E registered \in BOOLEAN : FreshConnection(registered)
  <2> DEFINE entered == Entered(e, Datagram)
  <2>1. /\ Advance /\ Datagram.kind = "initial" /\ c \notin known /\ Extracts(FramesOf(Datagram))
        /\ next_evict' = NextEvict(e, c) /\ now' = now
        /\ \/ pending' = entered /\ known' = known
           \/ pending' = Removed(entered, e) /\ known' = known \cup {c}
    BY <1>2, Zenon DEF FreshConnection, Advance
  <2>2. c \in Clients /\ Datagram \in Initials(c)
    BY <2>1, DatagramFacts, Zenon
  <2>3. CASE pending' = entered /\ known' = known
    <3> HIDE DEF c
    <3> QED
      BY <2>1, <2>2, <2>3, PendingKept, Zenon
  <2>4. CASE pending' = Removed(entered, e) /\ known' = known \cup {c}
    <3> HIDE DEF c
    <3>1. /\ e \in Entries /\ entered \in [Entries -> Entry \cup {Unused}]
          /\ \A f \in Entries : f # e =>
               entered[f] = pending[f] /\ (pending[f] # Unused => pending[f].client # c)
      BY <2>1, <2>2, EnteredFine
    <3> HIDE DEF entered, e
    <3>2. /\ pending' \in [Entries -> Entry \cup {Unused}] /\ pending'[e] = Unused
          /\ \A f \in Entries : f # e => pending'[f] = pending[f]
      BY <2>4, <3>1, Zenon DEF Removed
    <3>3. next_evict' \in 0 .. MaxPending - 1 /\ now' \in Nat
      BY <2>1, EvictCursor, Zenon DEF PendingInv
    <3>4. \A f \in Entries : pending'[f] # Unused => pending'[f].client \notin known'
      BY <2>4, <3>1, <3>2, Zenon DEF PendingInv
    <3>5. \A f \in Entries : pending'[f] = Unused \/ pending'[f] = pending[f]
      BY <3>2, Zenon
    <3> QED
      BY <3>2, <3>3, <3>4, <3>5, PendingShrinks, Zenon
  <2> QED
    BY <2>1, <2>3, <2>4, Zenon
<1>3. CASE Sweep
  <2>1. /\ \E gone \in SUBSET known : known' = known \ gone
        /\ pending' = [f \in Entries |->
             IF pending[f] # Unused /\ now - pending[f].last_seen >= PendingIdle
             THEN Unused ELSE pending[f]]
        /\ UNCHANGED <<next_evict, now>>
    BY <1>3, Zenon DEF Sweep
  <2>2. pending' \in [Entries -> Entry \cup {Unused}]
    BY <2>1, Zenon DEF PendingInv
  <2>3. \A f \in Entries : pending'[f] = Unused \/ pending'[f] = pending[f]
    BY <2>1, Zenon
  <2>4. \A f \in Entries : pending'[f] # Unused => pending'[f].client \notin known'
    BY <2>1, <2>3, Zenon DEF PendingInv
  <2>5. next_evict' \in 0 .. MaxPending - 1 /\ now' \in Nat
    BY <2>1, Zenon DEF PendingInv
  <2> QED
    BY <2>2, <2>3, <2>4, <2>5, PendingShrinks, Zenon
<1>4. CASE Tick
  BY <1>4 DEF Tick, PendingInv
<1>5. CASE UNCHANGED <<pending, next_evict, known, now>>
  BY <1>5, Zenon DEF PendingInv
<1>6. \/ BufferInitial \/ (\E registered \in BOOLEAN : FreshConnection(registered))
      \/ Sweep \/ Tick \/ UNCHANGED <<pending, next_evict, known, now>>
  BY Zenon DEF Next, Handle, FastPath, DropUnroutable, DropInitial, RelayReply, KnownSession, Advance,
         EndRound, ReceiveClients, ReceiveFlow, Receive, vars
<1> QED
  BY <1>1, <1>2, <1>3, <1>4, <1>5, <1>6, Zenon

-----------------------------------------------------------------------------
(* The send queue *)

LEMMA FlushedFine ==
  ASSUME NEW S, NEW items \in Seq(S), NEW entries,
         \A n \in DOMAIN items : Bytes(items[n], entries) = items[n].of
  PROVE  \A n \in DOMAIN Flushed(items, entries) :
           Flushed(items, entries)[n].bytes = Flushed(items, entries)[n].of
<1>1. DOMAIN items = 1 .. Len(items)
  OBVIOUS
<1> QED
  BY <1>1, Zenon DEF Flushed

LEMMA QueueShows ==
  ASSUME RoundInv, NEW entries
  PROVE  \A n \in DOMAIN queue : Bytes(queue[n], entries) = queue[n].of
BY Zenon DEF RoundInv, Borrowed, Bytes

\* A datagram that goes into the queue, behind the others or after them.
LEMMA EnqueueFine ==
  ASSUME RoundInv, Advance, NEW fd, Enqueue(Borrow(fd))
  PROVE  RoundInv' /\ SendsWhatArrived'
<1> DEFINE item == Borrow(fd)
           full == Len(queue) >= QueueSize
<1>1. /\ round.next <= round.last /\ round' = [round EXCEPT !.next = round.next + 1]
      /\ recv' = recv
  BY Zenon DEF Advance
<1>2. /\ round = [next |-> round.next, last |-> round.last]
      /\ round.next \in Nat \ {0} /\ round.last \in 0 .. Segments /\ Segments \in Nat
  BY LoopAssumption, Zenon DEF RoundInv
<1>3. /\ round' = [next |-> round.next + 1, last |-> round.last]
      /\ round'.next = round.next + 1 /\ round'.last = round.last
  BY <1>1, <1>2, Zenon
<1>4. round' # Idle
  BY <1>2, <1>3 DEF Idle
<1>5. PICK S : queue \in Seq(S)
  BY Zenon DEF RoundInv
<1>6. item.entry = 0 /\ item.i = round.next /\ item.of = recv[round.next]
  BY Zenon DEF Borrow, Datagram
<1> HIDE DEF item
<1>7. /\ queue' = IF full THEN <<item>> ELSE Append(queue, item)
      /\ sent' = IF full THEN Flushed(queue, pending) ELSE <<>>
  BY Zenon DEF Enqueue, item
<1>8. SendsWhatArrived'
  <2>1. CASE full
    BY <1>5, <1>7, <2>1, QueueShows, FlushedFine, Zenon DEF SendsWhatArrived
  <2>2. CASE ~full
    BY <1>7, <2>2 DEF SendsWhatArrived
  <2> QED
    BY <2>1, <2>2, Zenon
<1> HIDE DEF full
<1>9. Borrowed(item, round.next + 1)
  BY <1>2, <1>6 DEF Borrowed
<1>10. \A n \in DOMAIN queue : Borrowed(queue[n], round.next + 1)
  BY <1>2 DEF RoundInv, Borrowed
<1>11. /\ queue' \in Seq(S \cup {item})
       /\ \A n \in DOMAIN queue' : Borrowed(queue'[n], round.next + 1)
  <2>1. queue' = <<item>> \/ queue' = Append(queue, item)
    BY <1>7, Zenon
  <2>2. CASE queue' = <<item>>
    BY <2>2, <1>9
  <2>3. CASE queue' = Append(queue, item)
    BY <2>3, <1>5, <1>9, <1>10
  <2> QED
    BY <2>1, <2>2, <2>3, Zenon
<1>12. RoundInv'
  <2>1. \A n \in DOMAIN queue' : Borrowed(queue[n], round.next)'
    BY <1>1, <1>3, <1>11, Zenon DEF Borrowed
  <2>2. /\ \E R : recv' \in [Buffers -> R]
        /\ \A i \in 1 .. round'.last : IsInitial(recv'[i])
    BY <1>1, <1>3, Zenon DEF RoundInv
  <2>3. \E R : queue' \in Seq(R)
    BY <1>11, Zenon
  <2>4. /\ round' = [next |-> round'.next, last |-> round'.last]
        /\ round'.next \in Nat \ {0} /\ round'.last \in 0 .. Segments
        /\ round'.next <= round'.last + 1
    BY <1>1, <1>2, <1>3
  <2> QED
    BY ONLY <1>4, <2>1, <2>2, <2>3, <2>4, Zenon DEF RoundInv
<1> QED
  BY <1>8, <1>12, Zenon

\* A datagram that is dropped or kept, or sent at once with the whole queue.
LEMMA AdvanceFine ==
  ASSUME RoundInv, Advance, queue' = queue \/ queue' = <<>>
  PROVE  RoundInv'
<1>1. /\ round.next <= round.last /\ round' = [round EXCEPT !.next = round.next + 1]
      /\ recv' = recv
  BY Zenon DEF Advance
<1>2. /\ round = [next |-> round.next, last |-> round.last]
      /\ round.next \in Nat \ {0} /\ round.last \in 0 .. Segments /\ Segments \in Nat
  BY LoopAssumption, Zenon DEF RoundInv
<1>3. /\ round' = [next |-> round.next + 1, last |-> round.last]
      /\ round'.next = round.next + 1 /\ round'.last = round.last
  BY <1>1, <1>2, Zenon
<1>4. round' # Idle
  BY <1>2, <1>3 DEF Idle
<1>5. /\ \E S : queue' \in Seq(S)
      /\ \A n \in DOMAIN queue' : Borrowed(queue[n], round.next)'
  <2>1. CASE queue' = queue
    <3>1. \A n \in DOMAIN queue : Borrowed(queue[n], round.next + 1)
      BY <1>2 DEF RoundInv, Borrowed
    <3> QED
      BY <1>1, <1>3, <2>1, <3>1, Zenon DEF RoundInv, Borrowed
  <2>2. CASE queue' = <<>>
    <3>1. <<>> \in Seq({}) /\ DOMAIN <<>> = {}
      OBVIOUS
    <3> QED
      BY <2>2, <3>1, Zenon
  <2> QED
    BY <2>1, <2>2, Zenon
<1>6. /\ \E R : recv' \in [Buffers -> R]
      /\ \A i \in 1 .. round'.last : IsInitial(recv'[i])
  BY <1>1, <1>3, Zenon DEF RoundInv
<1>7. /\ round' = [next |-> round'.next, last |-> round'.last]
      /\ round'.next \in Nat \ {0} /\ round'.last \in 0 .. Segments
      /\ round'.next <= round'.last + 1
  BY <1>1, <1>2, <1>3
<1> QED
  BY ONLY <1>4, <1>5, <1>6, <1>7, Zenon DEF RoundInv

\* recvmmsg: nothing is queued that the buffers could be overwritten under.
LEMMA ReceiveFine ==
  ASSUME RoundInv, NEW n \in Buffers, NEW D, NEW datagrams \in [1 .. n -> D],
         \A d \in D : IsInitial(d), Receive(datagrams)
  PROVE  RoundInv' /\ SendsWhatArrived'
<1>1. n \in 1 .. Segments /\ Segments \in Nat
  BY LoopAssumption, Zenon DEF Buffers
<1>2. datagrams \in Seq(D) /\ Len(datagrams) = n /\ DOMAIN datagrams = 1 .. n
  BY <1>1
<1>3. /\ round = Idle
      /\ recv' = [i \in Buffers |-> IF i \in DOMAIN datagrams THEN datagrams[i] ELSE recv[i]]
      /\ round' = [next |-> 1, last |-> Len(datagrams)]
      /\ sent' = <<>> /\ queue' = queue
  BY Zenon DEF Receive
<1>4. queue' = <<>>
  BY <1>3, Zenon DEF RoundInv
<1>5. PICK S : recv \in [Buffers -> S]
  BY Zenon DEF RoundInv
<1>6. recv' \in [Buffers -> S \cup D]
  BY <1>2, <1>3, <1>5, Zenon
<1>7. \A i \in 1 .. n : recv'[i] \in D
  BY <1>1, <1>2, <1>3 DEF Buffers
<1>8. round'.next = 1 /\ round'.last = n /\ round' = [next |-> 1, last |-> n]
  BY <1>2, <1>3, Zenon
<1>9. <<>> \in Seq({}) /\ DOMAIN <<>> = {}
  OBVIOUS
<1>10. \A i \in 1 .. n : IsInitial(recv'[i])
  BY <1>7, Zenon
<1>11. RoundInv'
  <2>1. /\ \E R : recv' \in [Buffers -> R]
        /\ \A i \in 1 .. round'.last : IsInitial(recv'[i])
    BY <1>6, <1>8, <1>10, Zenon
  <2>2. /\ round' = [next |-> round'.next, last |-> round'.last]
        /\ round'.next \in Nat \ {0} /\ round'.last \in 0 .. Segments
        /\ round'.next <= round'.last + 1
    BY <1>1, <1>8
  <2>3. (\E R : queue' \in Seq(R)) /\ DOMAIN queue' = {}
    BY <1>4, <1>9, Zenon
  <2> QED
    BY ONLY <1>4, <2>1, <2>2, <2>3, Zenon DEF RoundInv
<1>12. SendsWhatArrived'
  BY <1>3 DEF SendsWhatArrived
<1> QED
  BY <1>11, <1>12, Zenon

\* route_crypto_stream: the queue and the entry's packets go out before the
\* entry is zeroed.
LEMMA FreshSends ==
  ASSUME NumberLaws, RoundInv, PendingInv, NEW registered, FreshConnection(registered)
  PROVE  RoundInv' /\ SendsWhatArrived'
<1> DEFINE c == Datagram.client
           e == EntryOf(c)
           acquired == Acquired(table, c, BackendOf(c), registered, now)
           p == SlotOf(acquired, c)
           entered == Entered(e, Datagram)
           packets == entered[e].packets
           borrowed == [i \in DOMAIN packets |-> [fd |-> acquired.flows[p].fd,
                          entry |-> e, i |-> i, of |-> packets[i]]]
<1>1. /\ Advance /\ Datagram.kind = "initial" /\ c \notin known /\ Extracts(FramesOf(Datagram))
      /\ \/ sent' = <<>> /\ queue' = queue
         \/ sent' = Flushed(queue \o borrowed, entered) /\ queue' = <<>>
  BY Zenon DEF FreshConnection
<1>2. RoundInv'
  BY <1>1, AdvanceFine, Zenon
<1>3. CASE sent' = <<>>
  BY <1>2, <1>3 DEF SendsWhatArrived
<1>4. CASE sent' = Flushed(queue \o borrowed, entered)
  <2>1. c \in Clients /\ Datagram \in Initials(c)
    BY <1>1, DatagramFacts, Zenon
  <2>2. e \in Entries /\ entered[e] \in Entry /\ entered[e] # Unused
    BY <1>1, <2>1, EnteredFine
  <2>3. packets \in Seq(Datagrams) /\ e # 0
    BY <2>2, LoopAssumption DEF Entry, Entries
  <2> DEFINE fd == acquired.flows[p].fd
             B == {borrowed[i] : i \in DOMAIN borrowed}
  <2> HIDE DEF fd, e, entered, packets
  <2>4. /\ DOMAIN borrowed = 1 .. Len(packets) /\ Len(packets) \in Nat
        /\ \A i \in DOMAIN borrowed :
             borrowed[i].entry = e /\ borrowed[i].i = i /\ borrowed[i].of = packets[i]
    BY <2>3
  <2> HIDE DEF borrowed
  <2>5. \A i \in DOMAIN borrowed : Bytes(borrowed[i], entered) = borrowed[i].of
    BY <2>2, <2>3, <2>4, Zenon DEF Bytes, packets
  <2>6. borrowed \in Seq(B)
    <3>1. borrowed = [i \in 1 .. Len(packets) |-> borrowed[i]]
      BY <2>3 DEF borrowed
    <3> QED
      BY <2>4, <3>1
  <2> HIDE DEF B
  <2>7. PICK S : queue \in Seq(S)
    BY Zenon DEF RoundInv
  <2>8. \A n \in DOMAIN queue : Bytes(queue[n], entered) = queue[n].of
    BY QueueShows, Zenon
  <2> DEFINE all == queue \o borrowed
  <2>9. /\ all \in Seq(S \cup B)
        /\ \A n \in DOMAIN all : \/ n \in DOMAIN queue /\ all[n] = queue[n]
                                 \/ \E i \in DOMAIN borrowed : all[n] = borrowed[i]
    <3>1. queue \in Seq(S \cup B) /\ borrowed \in Seq(S \cup B)
      BY <2>6, <2>7
    <3>2. all \in Seq(S \cup B) /\ DOMAIN all = 1 .. Len(queue) + Len(borrowed)
      BY ONLY <3>1, SMTT(30), Zenon
    <3>3. ASSUME NEW n \in DOMAIN all, n \notin DOMAIN queue
          PROVE  n - Len(queue) \in DOMAIN borrowed /\ all[n] = borrowed[n - Len(queue)]
      BY ONLY <3>1, <3>2, <3>3, SMTT(30), Zenon
    <3>4. ASSUME NEW n \in DOMAIN queue PROVE all[n] = queue[n]
      BY ONLY <3>1, <3>4, SMTT(30), Zenon
    <3> QED
      BY <3>2, <3>3, <3>4, Zenon
  <2>10. \A n \in DOMAIN all : Bytes(all[n], entered) = all[n].of
    BY <2>5, <2>8, <2>9, Zenon
  <2>11. sent' = Flushed(all, entered)
    BY <1>4, Zenon
  <2> HIDE DEF all
  <2> QED
    BY <1>2, <2>9, <2>10, <2>11, FlushedFine DEF SendsWhatArrived
<1> QED
  BY <1>1, <1>3, <1>4, Zenon

LEMMA SendStep ==
  ASSUME NumberLaws, RoundInv, PendingInv, SendsWhatArrived, [Next]_vars
  PROVE  RoundInv' /\ SendsWhatArrived'
<1>1. ASSUME NEW n \in Buffers, ReceiveClients(n) PROVE RoundInv' /\ SendsWhatArrived'
  <2>1. PICK datagrams \in [1 .. n -> FromClients] : Receive(datagrams)
    BY <1>1, Zenon DEF ReceiveClients
  <2>2. ASSUME NEW d \in FromClients PROVE IsInitial(d)
    <3>1. CASE \E x \in Clients : d \in Initials(x)
      BY <3>1, InitialFacts, Zenon DEF IsInitial
    <3>2. CASE \E x \in Clients : d = [kind |-> "short", client |-> x, part |-> 0]
      BY <3>2 DEF IsInitial
    <3>3. \/ \E x \in Clients : d \in Initials(x)
          \/ \E x \in Clients : d = [kind |-> "short", client |-> x, part |-> 0]
      <4>1. CASE d \in UNION {Initials(x) : x \in Clients}
        <5> HIDE DEF Initials
        <5> QED
          BY ONLY <4>1, Zenon
      <4>2. d \in FromClients
        BY Zenon
      <4>3. \/ d \in UNION {Initials(x) : x \in Clients}
            \/ d \in {[kind |-> "short", client |-> x, part |-> 0] : x \in Clients}
        BY ONLY <4>2, Zenon DEF FromClients
      <4>4. CASE d \in {[kind |-> "short", client |-> x, part |-> 0] : x \in Clients}
        BY ONLY <4>4, Zenon
      <4> QED
        BY ONLY <4>1, <4>3, <4>4, Zenon
    <3> QED
      BY <3>1, <3>2, <3>3, Zenon
  <2> QED
    BY <2>1, <2>2, ReceiveFine, Zenon
<1>2. ASSUME NEW n \in Buffers, NEW p \in Slots, ReceiveFlow(n, p)
      PROVE  RoundInv' /\ SendsWhatArrived'
  <2> DEFINE r == Reply(table.flows[p].client)
             datagrams == [i \in 1 .. n |-> r]
  <2>1. Receive(datagrams)
    BY <1>2, Zenon DEF ReceiveFlow
  <2>2. IsInitial(r)
    BY Zenon DEF Reply, IsInitial
  <2> HIDE DEF r
  <2>3. datagrams \in [1 .. n -> {r}] /\ \A d \in {r} : IsInitial(d)
    BY <2>2, Zenon
  <2> HIDE DEF datagrams
  <2> QED
    BY <2>1, <2>3, ReceiveFine, Zenon
<1>3. CASE FastPath \/ RelayReply
  <2>1. Advance /\ \E fd : Enqueue(Borrow(fd))
    BY <1>3, Zenon DEF FastPath, RelayReply
  <2> QED
    BY <2>1, EnqueueFine, Zenon
<1>4. ASSUME NEW registered \in BOOLEAN, KnownSession(registered)
      PROVE  RoundInv' /\ SendsWhatArrived'
  <2>1. /\ Advance
        /\ (\E fd : Enqueue(Borrow(fd))) \/ (sent' = <<>> /\ queue' = queue)
    BY <1>4, Zenon DEF KnownSession
  <2>2. CASE \E fd : Enqueue(Borrow(fd))
    BY <2>1, <2>2, EnqueueFine, Zenon
  <2>3. CASE sent' = <<>> /\ queue' = queue
    BY <2>1, <2>3, AdvanceFine DEF SendsWhatArrived
  <2> QED
    BY <2>1, <2>2, <2>3, Zenon
<1>5. ASSUME NEW registered \in BOOLEAN, FreshConnection(registered)
      PROVE  RoundInv' /\ SendsWhatArrived'
  BY <1>5, FreshSends, Zenon
<1>6. CASE DropUnroutable \/ DropInitial \/ BufferInitial
  <2>1. Advance /\ sent' = <<>> /\ queue' = queue
    BY <1>6, Zenon DEF DropUnroutable, DropInitial, BufferInitial
  <2> QED
    BY <2>1, AdvanceFine DEF SendsWhatArrived
<1>7. CASE EndRound
  <2>1. round' = Idle /\ recv' = recv /\ sent' = Flushed(queue, pending) /\ queue' = <<>>
    BY <1>7, Zenon DEF EndRound
  <2>2. SendsWhatArrived'
    <3>1. PICK S : queue \in Seq(S)
      BY Zenon DEF RoundInv
    <3> QED
      BY <2>1, <3>1, QueueShows, FlushedFine DEF SendsWhatArrived
  <2>3. (\E R : queue' \in Seq(R)) /\ DOMAIN queue' = {}
    <3>1. <<>> \in Seq({}) /\ DOMAIN <<>> = {}
      OBVIOUS
    <3> QED
      BY <2>1, <3>1, Zenon
  <2>4. /\ round' = [next |-> round'.next, last |-> round'.last]
        /\ round'.next = 1 /\ round'.last = 0
    BY <2>1, Zenon DEF Idle
  <2>5. \E R : recv' \in [Buffers -> R]
    BY ONLY <2>1, RoundInv, Zenon DEF RoundInv
  <2>6. /\ round'.next \in Nat \ {0} /\ round'.last \in 0 .. Segments
        /\ round'.next <= round'.last + 1
        /\ \A i \in 1 .. round'.last : IsInitial(recv'[i])
    BY ONLY <2>4, LoopAssumption, SMTT(30), Zenon
  <2>7. RoundInv'
    BY ONLY <2>1, <2>3, <2>4, <2>5, <2>6, Zenon DEF RoundInv
  <2> QED
    BY <2>2, <2>7, Zenon
<1>8. CASE Sweep \/ Tick
  <2>1. UNCHANGED <<recv, round, queue>> /\ sent' = <<>>
    BY <1>8, Zenon DEF Sweep, Tick
  <2>2. RoundInv'
    BY ONLY <2>1, RoundInv, Zenon DEF RoundInv, Borrowed
  <2>3. SendsWhatArrived'
    BY ONLY <2>1, SMTT(30), Zenon DEF SendsWhatArrived
  <2> QED
    BY <2>2, <2>3, Zenon
<1>9. CASE UNCHANGED vars
  BY <1>9, Zenon DEF vars, RoundInv, Borrowed, SendsWhatArrived
<1> QED
  BY <1>1, <1>2, <1>3, <1>4, <1>5, <1>6, <1>7, <1>8, <1>9, Zenon DEF Next, Handle

LEMMA LoopInit == Init => RoundInv /\ PendingInv /\ SendsWhatArrived
<1> SUFFICES ASSUME Init PROVE RoundInv /\ PendingInv /\ SendsWhatArrived
  BY Zenon
<1>1. /\ pending = [e \in Entries |-> Unused] /\ next_evict = 0
      /\ recv = [i \in Buffers |-> Unused] /\ round = Idle
      /\ queue = <<>> /\ sent = <<>> /\ now = 0
  BY Zenon DEF Init
<1>2. PendingInv
  BY <1>1, LoopAssumption DEF PendingInv
<1>3. (\E R : queue \in Seq(R)) /\ DOMAIN queue = {}
  <2>1. <<>> \in Seq({}) /\ DOMAIN <<>> = {}
    OBVIOUS
  <2> QED
    BY <1>1, <2>1, Zenon
<1>4. \E R : recv \in [Buffers -> R]
  <2>1. recv \in [Buffers -> {Unused}]
    BY ONLY <1>1, Zenon
  <2> QED
    BY ONLY <2>1, Zenon
<1>5. /\ round = [next |-> round.next, last |-> round.last]
      /\ round.next = 1 /\ round.last = 0
  BY <1>1, Zenon DEF Idle
<1>6. /\ round.next \in Nat \ {0} /\ round.last \in 0 .. Segments
      /\ round.next <= round.last + 1
      /\ \A i \in 1 .. round.last : IsInitial(recv[i])
  BY ONLY <1>5, LoopAssumption, SMTT(30), Zenon
<1>7. RoundInv
  BY ONLY <1>1, <1>3, <1>4, <1>5, <1>6, Zenon DEF RoundInv
<1> QED
  BY <1>1, <1>2, <1>7 DEF SendsWhatArrived

-----------------------------------------------------------------------------
(* The flows *)

Routed == {c \in Clients : BackendOf(c) \in Backends}

\* A round is one of replies from one flow's socket, which stays open for it,
\* or one of datagrams from clients.
FlowInv ==
  /\ Sound(table, {}) /\ known \subseteq Routed
  /\ recv \in [Buffers -> Datagrams \cup {Unused}]
  /\ \A i \in 1 .. round.last : recv[i] \in Datagrams
  /\ \A i \in 1 .. round.last : recv[i].kind = "reply" =>
       /\ ~Stranger(table, recv[i].client)
       /\ \A j \in 1 .. round.last : recv[j] = recv[i]

\* The backend of a client is that of its whole ClientHello, as soon as the
\* bytes up to the end of the SNI are there and no sooner.
LEMMA RouteFacts ==
  ASSUME NumberLaws, NEW c \in Clients, NEW n \in 0 .. MaxHello
  PROVE  /\ RouteOf(c, n) # Unused => /\ SniEnd[c] <= n /\ BackendOf(c) = RouteOf(c, n)
                                      /\ BackendOf(c) \in Backends
         /\ SniEnd[c] <= n /\ BackendOf(c) # Unused => RouteOf(c, n) # Unused
<1> DEFINE h == HelloOf[c]
           names == DOMAIN Routes
<1>1. /\ h \in Hellos(names) /\ (Snis(h.extensions) # {} => SniEnd[c] = SniEndOf(h))
  BY HelloAssumption, Zenon
<1>2. n \in Nat /\ MaxHello \in Nat /\ n <= MaxHello
  BY StreamAssumption
<1> HIDE DEF h, names
<1>3. /\ Sni(h, n) \in names \cup {NoName}
      /\ Sni(h, n) # NoName =>
           Snis(h.extensions) # {} /\ SniEndOf(h) <= n /\ Sni(h, MaxHello) = Sni(h, n)
      /\ Sni(h, MaxHello) # NoName /\ SniEndOf(h) <= n => Sni(h, n) = Sni(h, MaxHello)
  BY <1>1, <1>2, SniFacts, Zenon
<1>4. Sni(h, MaxHello) # NoName => Snis(h.extensions) # {}
  <2>1. MaxHello <= MaxHello
    BY <1>2
  <2> QED
    BY <1>1, <1>2, <2>1, SniFacts, Zenon
<1>5. \A k : RouteOf(c, k) = IF Sni(h, k) = NoName THEN Unused ELSE Routes[Sni(h, k)]
  BY Zenon DEF RouteOf, h
<1>6. BackendOf(c) = RouteOf(c, MaxHello)
  BY Zenon DEF BackendOf
<1>7. \A name \in names : Routes[name] \in Backends \cup {Unused}
  BY LoopAssumption, Zenon DEF names
<1> QED
  BY <1>1, <1>3, <1>4, <1>5, <1>6, <1>7, Zenon

LEMMA SniEndType ==
  ASSUME NumberLaws, NEW c \in Clients, BackendOf(c) # Unused
  PROVE  SniEnd[c] \in Nat
<1> DEFINE h == HelloOf[c]
           E == h.extensions
<1>1. h \in Hellos(DOMAIN Routes) /\ (Snis(E) # {} => SniEnd[c] = SniEndOf(h))
  BY HelloAssumption, Zenon
<1>2. MaxHello \in Nat /\ MaxHello <= MaxHello
  BY StreamAssumption
<1>3. Sni(h, MaxHello) # NoName
  BY Zenon DEF BackendOf, RouteOf
<1>4. /\ h.record \in Nat /\ h.session \in Nat /\ h.ciphers \in Nat /\ h.compression \in Nat
  BY <1>1, Zenon DEF Hellos
<1>5. E \in Seq(Extensions(DOMAIN Routes))
  BY <1>1, Zenon DEF Hellos
<1> HIDE DEF h, E
<1>6. Snis(h.extensions) # {}
  BY <1>1, <1>2, <1>3, SniFacts, Zenon
<1>7. Snis(E) # {}
  BY <1>6, Zenon DEF E
<1>8. \A i \in DOMAIN E : E[i].len \in Nat
  <2> DEFINE X == Extensions(DOMAIN Routes)
  <2>1. \A x \in X : x.len \in Nat
    BY Zenon DEF Extensions
  <2>2. E \in Seq(X)
    BY <1>5, Zenon
  <2> HIDE DEF X
  <2> QED
    BY ONLY <2>1, <2>2, SMTT(30), Zenon
<1>9. ExtensionEnd(E, FirstSni(E)) \in Nat
  BY <1>5, <1>7, <1>8, FirstSniFacts, ExtensionEndType, Zenon
<1>10. SniEndOf(h) = IF h.wrapped THEN 5 + h.record
                     ELSE 4 + FixedLen(h) + 2 + ExtensionEnd(E, FirstSni(E))
  BY Zenon DEF SniEndOf, E
<1>11. FixedLen(h) \in Nat
  BY <1>4 DEF FixedLen
<1> QED
  BY <1>1, <1>4, <1>7, <1>9, <1>10, <1>11

\* Which clients have a flow is what SlotOf says.
LEMMA StrangerSlot ==
  ASSUME FlowLaws, NEW t, NEW c
  PROVE  Stranger(t, c) <=> SlotOf(t, c) = NoSlot
<1>1. SlotOf(t, c) = NoSlot => Stranger(t, c)
  BY Zenon DEF FlowLaws, SlotLaw
<1>2. Stranger(t, c) => SlotOf(t, c) = NoSlot
  BY Zenon DEF Stranger, SlotOf
<1> QED
  BY <1>1, <1>2, Zenon

\* qsr_flow_table_touch.
LEMMA TouchSound ==
  ASSUME FlowLaws, NEW t, Sound(t, {}), NEW p \in UsedSlots(t), NEW time \in Nat,
         NEW u, u = [t EXCEPT !.flows[p].last_seen = time]
  PROVE  Sound(u, {}) /\ \A c : Stranger(u, c) <=> Stranger(t, c)
<1> DEFINE f == [t.flows[p] EXCEPT !.last_seen = time]
<1>1. t \in Tables /\ p \in Slots /\ t.flows[p] \in Flow
  BY Zenon DEF Sound, Tables, UsedSlots, Used
<1>2. /\ f \in Flow /\ f.client = t.flows[p].client /\ f.fd = t.flows[p].fd
      /\ f.id = t.flows[p].id
  BY <1>1, Zenon DEF Flow
<1>3. u = [t EXCEPT !.flows = [t.flows EXCEPT ![p] = f]]
  BY Zenon
<1> HIDE DEF f
<1>4. Sound(u, {})
  BY <1>2, <1>3, Zenon DEF FlowLaws, RefreshLaw
<1>5. u.flows = [t.flows EXCEPT ![p] = f]
  BY <1>1, <1>3, Zenon DEF Tables
<1>6. /\ \A q \in Slots : q # p => u.flows[q] = t.flows[q]
      /\ u.flows[p] = f /\ f # Unused
  BY <1>1, <1>2, <1>5, UnusedAssumption, Zenon DEF Tables
<1>7. UsedSlots(u) = UsedSlots(t) /\ \A q \in UsedSlots(t) : u.flows[q].client = t.flows[q].client
  BY <1>1, <1>2, <1>6, Zenon DEF UsedSlots, Used
<1> QED
  BY <1>4, <1>7, Zenon DEF Stranger

\* flow_acquire opens no flow for another client.
LEMMA AcquireStranger ==
  ASSUME NEW t, NEW u, NEW c, NEW b, NEW time, Aimed(t, u, c, b, time),
         NEW x, x # c, Stranger(t, x)
  PROVE  Stranger(u, x)
BY Zenon DEF Aimed, Stranger

\* route_crypto_stream has a backend for the client, and the bytes up to the
\* end of the SNI.
LEMMA WholeFacts ==
  ASSUME NumberLaws, NEW entry \in Entry, EntryFine(entry), Whole(entry),
         NEW n, n = ContiguousLen(entry.crypto)
  PROVE  /\ n \in 0 .. MaxHello /\ SniEnd[entry.client] <= n
         /\ 0 .. n - 1 \subseteq entry.crypto.received
         /\ BackendOf(entry.client) \in Backends
<1>1. entry.client \in Clients /\ entry.crypto \in Streams /\ Within(entry.crypto)
  BY Zenon DEF Entry, EntryFine
<1>2. n \in 0 .. MaxHello /\ 0 .. n - 1 \subseteq entry.crypto.received
  BY <1>1, ContiguousFacts, Zenon
<1>3. RouteOf(entry.client, n) # Unused
  BY Zenon DEF Whole
<1> QED
  BY <1>1, <1>2, <1>3, RouteFacts, Zenon

LEMMA FreshFacts ==
  ASSUME NumberLaws, RoundInv, PendingInv, NEW registered, FreshConnection(registered),
         NEW c, c = Datagram.client, NEW e, e = EntryOf(c),
         NEW entry, entry = Entered(e, Datagram)[e]
  PROVE  /\ c \in Clients /\ c \notin known /\ Datagram \in Initials(c) /\ Extracts(FramesOf(Datagram))
         /\ e \in Entries /\ entry \in Entry /\ entry.client = c /\ EntryFine(entry) /\ Whole(entry)
         /\ entry = Merged(e, Datagram)
         /\ BackendOf(c) \in Backends
<1>1. /\ Advance /\ Datagram.kind = "initial" /\ c \notin known /\ Extracts(FramesOf(Datagram))
      /\ Whole(entry)
  BY Zenon DEF FreshConnection
<1>2. c \in Clients /\ Datagram \in Initials(c)
  BY <1>1, DatagramFacts, Zenon
<1>3. /\ e \in Entries /\ entry \in Entry /\ entry.client = c /\ EntryFine(entry)
      /\ entry = Merged(e, Datagram)
  BY ONLY NumberLaws, PendingInv, e = EntryOf(c), entry = Entered(e, Datagram)[e], <1>1, <1>2,
          EnteredFine, SMTT(30), Zenon
<1> QED
  BY <1>1, <1>2, <1>3, WholeFacts, Zenon

\* The same in one word.
Begins(c, e, entry) ==
  /\ c \in Clients /\ Datagram \in Initials(c) /\ Extracts(FramesOf(Datagram))
  /\ e \in Entries /\ entry \in Entry /\ entry.client = c /\ EntryFine(entry) /\ Whole(entry)
  /\ entry = Merged(e, Datagram) /\ BackendOf(c) \in Backends

LEMMA FreshBegins ==
  ASSUME NumberLaws, RoundInv, PendingInv, NEW registered, FreshConnection(registered),
         NEW c, c = Datagram.client, NEW e, e = EntryOf(c),
         NEW entry, entry = Entered(e, Datagram)[e]
  PROVE  Begins(c, e, entry)
BY FreshFacts DEF Begins

\* What a step does to the flows: one is opened only for the client of the
\* datagram at hand, and only where there is a session or a whole ClientHello.
Opens == \E registered \in BOOLEAN : KnownSession(registered) \/ FreshConnection(registered)

LEMMA TableStep ==
  ASSUME FlowLaws, NumberLaws, FlowInv, RoundInv, PendingInv, [Next]_vars
  PROVE  /\ Sound(table', {})
         /\ \A x : Stranger(table, x) =>
              Stranger(table', x) \/ (Opens /\ x = Datagram.client)
<1> DEFINE Goal == /\ Sound(table', {})
                   /\ \A x : Stranger(table, x) =>
                        Stranger(table', x) \/ (Opens /\ x = Datagram.client)
<1>1. Sound(table, {}) /\ now \in Nat
  BY Zenon DEF FlowInv, PendingInv
<1>2. ASSUME NEW p \in UsedSlots(table), table' = [table EXCEPT !.flows[p].last_seen = now]
      PROVE  Goal
  <2>1. Sound(table', {}) /\ \A c : Stranger(table', c) <=> Stranger(table, c)
    BY ONLY FlowLaws, <1>1, <1>2, TouchSound, SMTT(30), Zenon
  <2> QED
    BY <2>1, Zenon
<1>3. ASSUME Opens, NEW c, c = Datagram.client, c \in Clients, BackendOf(c) \in Backends,
             NEW registered, table' = Acquired(table, c, BackendOf(c), registered, now)
      PROVE  Goal
  <2>1. Sound(table', {}) /\ Aimed(table, table', c, BackendOf(c), now)
    BY ONLY FlowLaws, <1>1, <1>3, SMTT(30), Zenon DEF FlowLaws, AcquireLaw
  <2>2. \A x : x # c /\ Stranger(table, x) => Stranger(table', x)
    BY ONLY <2>1, AcquireStranger, Zenon
  <2> QED
    BY <1>3, <2>1, <2>2, Zenon
<1>4. CASE FastPath
  <2> DEFINE p == SlotOf(table, Datagram.client)
  <2>1. p # NoSlot /\ table' = [table EXCEPT !.flows[p].last_seen = now]
    BY <1>4, Zenon DEF FastPath
  <2>2. p \in UsedSlots(table)
    BY <2>1, Zenon DEF FlowLaws, SlotLaw
  <2> HIDE DEF p, Goal
  <2>3. Goal
    BY ONLY <1>2, <2>1, <2>2, Zenon
  <2> QED
    BY ONLY <2>3, Zenon DEF Goal
<1>5. CASE RelayReply
  <2> DEFINE p == SlotOf(table, Datagram.client)
  <2>1. /\ Advance /\ Datagram.kind = "reply"
        /\ table' = [table EXCEPT !.flows[p].last_seen = now]
    BY <1>5, Zenon DEF RelayReply
  <2>2. round.next \in 1 .. round.last
    BY <2>1 DEF Advance, RoundInv
  <2>3. ~Stranger(table, Datagram.client)
    BY <2>1, <2>2, Zenon DEF FlowInv, Datagram
  <2>4. p \in UsedSlots(table)
    BY <2>3, Zenon DEF FlowLaws, SlotLaw
  <2> HIDE DEF p, Goal
  <2>5. Goal
    BY ONLY <1>2, <2>1, <2>4, Zenon
  <2> QED
    BY ONLY <2>5, Zenon DEF Goal
<1>6. CASE Opens
  <2> DEFINE c == Datagram.client
  <2>1. PICK registered \in BOOLEAN : KnownSession(registered) \/ FreshConnection(registered)
    BY <1>6, Zenon DEF Opens
  <2>2. table' = Acquired(table, c, BackendOf(c), registered, now)
    BY <2>1, Zenon DEF KnownSession, FreshConnection
  <2>3. c \in Clients /\ BackendOf(c) \in Backends
    <3>1. CASE KnownSession(registered)
      <4>1. c \in known
        BY <3>1, Zenon DEF KnownSession
      <4> QED
        BY <4>1, Zenon DEF FlowInv, Routed
    <3>2. CASE FreshConnection(registered)
      BY <3>2, FreshFacts, Zenon
    <3> QED
      BY <2>1, <3>1, <3>2, Zenon
  <2>4. c = Datagram.client
    BY Zenon
  <2> HIDE DEF c, Goal
  <2>5. Goal
    BY ONLY <1>3, <1>6, <2>2, <2>3, <2>4, Zenon
  <2> QED
    BY ONLY <2>5, Zenon DEF Goal
<1>7. CASE Sweep
  <2>1. table' = ExpireAll(table, now)
    BY <1>7, Zenon DEF Sweep
  <2>2. Sound(table', {}) /\ Kept(table, table')
    BY ONLY FlowLaws, <1>1, <2>1, Zenon DEF FlowLaws, ExpireLaw
  <2> QED
    BY <2>2, Zenon DEF Kept, Stranger
<1>8. CASE table' = table
  BY ONLY <1>1, <1>8, Zenon DEF Stranger
<1>9. FastPath \/ RelayReply \/ Opens \/ Sweep \/ table' = table
  BY Zenon DEF Next, Handle, Opens, DropUnroutable, DropInitial, BufferInitial,
         EndRound, Tick, ReceiveClients, ReceiveFlow, Receive, vars
<1> QED
  BY <1>4, <1>5, <1>6, <1>7, <1>8, <1>9, Zenon

\* The rest of FlowInv, for a step that leaves the buffers alone.
LEMMA RoundKept ==
  ASSUME FlowInv, RoundInv, Sound(table', {}), known' \subseteq Routed, recv' = recv,
         \/ round' = Idle
         \/ /\ round'.last = round.last
            /\ \A i \in 1 .. round.last : recv[i].kind = "reply" => ~Stranger(table', recv[i].client)
  PROVE  FlowInv'
<1>1. CASE round' = Idle
  <2>1. 1 .. round'.last = {}
    <3>1. round'.last = 0
      BY <1>1, Zenon DEF Idle
    <3> QED
      BY <3>1, NoneToZero, Zenon
  <2> QED
    BY <2>1, Zenon DEF FlowInv, Routed, BackendOf, RouteOf
<1>2. CASE /\ round'.last = round.last
           /\ \A i \in 1 .. round.last : recv[i].kind = "reply" => ~Stranger(table', recv[i].client)
  BY <1>2, Zenon DEF FlowInv, Routed, BackendOf, RouteOf
<1> QED
  BY <1>1, <1>2, Zenon

\* recvmmsg: a round of datagrams from clients, or of one flow's replies.
LEMMA RoundReceived ==
  ASSUME FlowInv, RoundInv, NEW n \in Buffers, NEW datagrams \in [1 .. n -> Datagrams],
         Receive(datagrams),
         \A i, j \in 1 .. n : datagrams[i].kind = "reply" =>
           ~Stranger(table, datagrams[i].client) /\ datagrams[j] = datagrams[i]
  PROVE  FlowInv'
<1>1. n \in 1 .. Segments /\ Segments \in Nat
  BY LoopAssumption, Zenon DEF Buffers
<1>2. datagrams \in Seq(Datagrams) /\ Len(datagrams) = n /\ DOMAIN datagrams = 1 .. n
  BY <1>1
<1>3. /\ recv' = [i \in Buffers |-> IF i \in DOMAIN datagrams THEN datagrams[i] ELSE recv[i]]
      /\ round' = [next |-> 1, last |-> Len(datagrams)]
      /\ table' = table /\ known' = known
  BY Zenon DEF Receive
<1>4. recv \in [Buffers -> Datagrams \cup {Unused}]
  BY Zenon DEF FlowInv
<1>5. \A i \in 1 .. n : datagrams[i] \in Datagrams /\ i \in Buffers
  BY <1>1 DEF Buffers
<1>6. recv' \in [Buffers -> Datagrams \cup {Unused}]
  BY <1>2, <1>3, <1>4, <1>5, Zenon
<1>7. round'.last = n
  BY <1>2, <1>3, Zenon
<1>8. \A i \in 1 .. n : recv'[i] = datagrams[i]
  BY <1>2, <1>3, <1>5, Zenon
<1> QED
  BY <1>3, <1>5, <1>6, <1>7, <1>8 DEF FlowInv, Routed, BackendOf, RouteOf, Stranger

LEMMA FromClientsFacts ==
  ASSUME NEW d \in FromClients
  PROVE  d \in Datagrams /\ d.kind # "reply"
<1>1. CASE \E x \in Clients : d \in Initials(x)
  BY <1>1, InitialFacts, Zenon
<1>2. CASE \E x \in Clients : d = [kind |-> "short", client |-> x, part |-> 0]
  BY <1>2 DEF Datagrams
<1>3. CASE d \in UNION {Initials(x) : x \in Clients}
  <2> HIDE DEF Initials
  <2>1. \E x \in Clients : d \in Initials(x)
    BY ONLY <1>3, Zenon
  <2> QED
    BY ONLY <1>1, <2>1, Zenon
<1>4. CASE d \in {[kind |-> "short", client |-> x, part |-> 0] : x \in Clients}
  <2>1. \E x \in Clients : d = [kind |-> "short", client |-> x, part |-> 0]
    BY ONLY <1>4, Zenon
  <2> QED
    BY ONLY <1>2, <2>1, Zenon
<1>5. d \in FromClients
  BY Zenon
<1>6. \/ d \in UNION {Initials(x) : x \in Clients}
      \/ d \in {[kind |-> "short", client |-> x, part |-> 0] : x \in Clients}
  BY ONLY <1>5, Zenon DEF FromClients
<1> QED
  BY ONLY <1>3, <1>4, <1>6, Zenon

LEMMA FlowStep ==
  ASSUME FlowLaws, NumberLaws, FlowInv, RoundInv, PendingInv, [Next]_vars
  PROVE  FlowInv'
<1>1. /\ Sound(table', {})
      /\ \A x : Stranger(table, x) => Stranger(table', x) \/ (Opens /\ x = Datagram.client)
  BY TableStep, Zenon
<1>2. ASSUME NEW n \in Buffers, ReceiveClients(n) PROVE FlowInv'
  <2>1. PICK datagrams \in [1 .. n -> FromClients] : Receive(datagrams)
    BY <1>2, Zenon DEF ReceiveClients
  <2>2. /\ datagrams \in [1 .. n -> Datagrams]
        /\ \A i \in 1 .. n : datagrams[i].kind # "reply"
    BY <2>1, FromClientsFacts, Zenon
  <2> QED
    BY <2>1, <2>2, RoundReceived, Zenon
<1>3. ASSUME NEW n \in Buffers, NEW p \in Slots, ReceiveFlow(n, p) PROVE FlowInv'
  <2> DEFINE x == table.flows[p].client
             r == Reply(x)
             datagrams == [i \in 1 .. n |-> r]
  <2>1. Receive(datagrams) /\ p \in UsedSlots(table)
    BY <1>3, Zenon DEF ReceiveFlow, UsedSlots
  <2>2. x \in Clients /\ ~Stranger(table, x)
    <3>1. table.flows[p] \in Flow
      BY <2>1, Zenon DEF FlowInv, Sound, Tables, UsedSlots, Used
    <3> QED
      BY <2>1, <3>1, Zenon DEF Flow, Stranger
  <2> HIDE DEF x
  <2>3. r \in Datagrams /\ r.client = x
    BY <2>2, Zenon DEF Reply, Datagrams
  <2> HIDE DEF r
  <2>4. /\ datagrams \in [1 .. n -> Datagrams]
        /\ \A i \in 1 .. n : datagrams[i] = r
    BY <2>3, Zenon
  <2> HIDE DEF datagrams
  <2> QED
    BY <2>1, <2>2, <2>3, <2>4, RoundReceived, Zenon
<1>4. ASSUME Handle PROVE FlowInv'
  <2>1. Advance
    BY <1>4, Zenon DEF Handle, FastPath, DropUnroutable, DropInitial, BufferInitial, RelayReply,
                KnownSession, FreshConnection
  <2>2. recv' = recv /\ round'.last = round.last /\ round.next \in 1 .. round.last
    BY <2>1 DEF Advance, RoundInv
  <2>3. ASSUME NEW i \in 1 .. round.last, recv[i].kind = "reply", Stranger(table', recv[i].client)
        PROVE  FALSE
    <3>1. ~Stranger(table, recv[i].client) /\ Datagram = recv[i]
      BY <2>2, <2>3, Zenon DEF FlowInv, Datagram
    <3>2. ~Opens
      BY <2>3, <3>1, Zenon DEF Opens, KnownSession, FreshConnection
    <3>3. table' = table \/ FastPath \/ RelayReply
      BY <1>4, <3>2, Zenon DEF Handle, Opens, DropUnroutable, DropInitial, BufferInitial
    <3>4. CASE table' = table
      BY ONLY <2>3, <3>1, <3>4, Zenon DEF Stranger
    <3>5. CASE FastPath \/ RelayReply
      <4> DEFINE p == SlotOf(table, Datagram.client)
      <4>1. table' = [table EXCEPT !.flows[p].last_seen = now]
        BY <3>5, Zenon DEF FastPath, RelayReply
      <4>2. p \in UsedSlots(table)
        BY <3>1, Zenon DEF FlowLaws, SlotLaw
      <4>3. Sound(table, {}) /\ now \in Nat
        BY Zenon DEF FlowInv, PendingInv
      <4> HIDE DEF p
      <4>4. \A c : Stranger(table', c) <=> Stranger(table, c)
        BY ONLY FlowLaws, <4>1, <4>2, <4>3, TouchSound, SMTT(30), Zenon
      <4> QED
        BY ONLY <2>3, <3>1, <4>4, Zenon
    <3> QED
      BY <3>3, <3>4, <3>5, Zenon
  <2>4. known' \subseteq Routed
    <3>1. CASE known' = known
      BY <3>1, Zenon DEF FlowInv
    <3>2. ASSUME NEW registered \in BOOLEAN, FreshConnection(registered) PROVE known' \subseteq Routed
      <4>1. known' = known \/ known' = known \cup {Datagram.client}
        BY <3>2, Zenon DEF FreshConnection
      <4>2. Datagram.client \in Clients /\ BackendOf(Datagram.client) \in Backends
        BY <3>2, FreshFacts, Zenon
      <4> QED
        BY <4>1, <4>2, Zenon DEF FlowInv, Routed
    <3> QED
      BY <1>4, <3>1, <3>2, Zenon DEF Handle, FastPath, DropUnroutable, DropInitial, BufferInitial,
                              RelayReply, KnownSession
  <2> QED
    BY <1>1, <2>2, <2>3, <2>4, RoundKept, Zenon
<1>5. CASE EndRound \/ Sweep \/ Tick
  <2>1. round' = Idle /\ recv' = recv /\ known' \subseteq known
    BY <1>5, Zenon DEF EndRound, Sweep, Tick
  <2>2. known' \subseteq Routed
    BY <2>1, Zenon DEF FlowInv
  <2> QED
    BY ONLY <1>1, <2>1, <2>2, FlowInv, RoundInv, RoundKept, Zenon
<1>6. CASE UNCHANGED vars
  BY <1>6, Zenon DEF vars, FlowInv, Routed, BackendOf, RouteOf, Stranger
<1> QED
  BY <1>2, <1>3, <1>4, <1>5, <1>6, Zenon DEF Next

-----------------------------------------------------------------------------
(* Types *)

SendInv ==
  /\ queue \in Seq(Items) /\ Len(queue) <= QueueSize
  /\ sent \in Seq(Outputs) /\ now \in 0 .. MaxTime

\* What is sent is typed as what was enqueued, since it is the same.
LEMMA FlushedType ==
  ASSUME NEW items \in Seq(Items), NEW entries, NEW out, out = Flushed(items, entries),
         \A n \in DOMAIN out : out[n].bytes = out[n].of
  PROVE  out \in Seq(Outputs)
<1>1. Len(items) \in Nat /\ \A n \in 1 .. Len(items) : items[n] \in Items
  OBVIOUS
<1>2. out = [n \in 1 .. Len(items) |->
               [fd |-> items[n].fd, of |-> items[n].of, bytes |-> Bytes(items[n], entries)]]
  BY Zenon DEF Flushed
<1>3. DOMAIN out = 1 .. Len(items)
  BY <1>2, Zenon
<1>4. ASSUME NEW n \in 1 .. Len(items) PROVE out[n] \in Outputs
  <2>1. out[n] = [fd |-> items[n].fd, of |-> items[n].of, bytes |-> Bytes(items[n], entries)]
    BY ONLY <1>2, n \in 1 .. Len(items), Zenon
  <2>2. items[n].fd \in Fds \cup {MainFd} /\ items[n].of \in Datagrams
    BY <1>1, Zenon DEF Items
  <2>3. out[n].bytes = out[n].of
    BY <1>3, Zenon
  <2>4. Bytes(items[n], entries) \in Datagrams
    BY <2>1, <2>2, <2>3
  <2> QED
    BY ONLY <2>1, <2>2, <2>4, SMTT(30), Zenon DEF Outputs
<1>5. out = [n \in 1 .. Len(items) |-> out[n]]
  BY <1>2, Zenon
<1>6. out \in [1 .. Len(items) -> Outputs]
  BY ONLY <1>4, <1>5, Zenon
<1> HIDE DEF Outputs
<1> QED
  BY ONLY <1>1, <1>6, SMTT(30), Zenon

LEMMA AdvanceTypes ==
  ASSUME FlowInv, RoundInv, Advance, NEW fd \in Fds \cup {MainFd}
  PROVE  Borrow(fd) \in Items
<1>1. round.next \in 1 .. round.last /\ round.next \in Nat
  BY DEF Advance, RoundInv
<1>2. Datagram \in Datagrams
  BY <1>1, Zenon DEF FlowInv, Datagram
<1>3. 0 \in 0 .. MaxPending
  BY LoopAssumption
<1> QED
  BY <1>1, <1>2, <1>3, Zenon DEF Borrow, Items

LEMMA EnqueueType ==
  ASSUME SendInv, NEW item \in Items, Enqueue(item), SendsWhatArrived'
  PROVE  queue' \in Seq(Items) /\ Len(queue') <= QueueSize /\ sent' \in Seq(Outputs)
<1> DEFINE full == Len(queue) >= QueueSize
<1>1. /\ queue' = IF full THEN <<item>> ELSE Append(queue, item)
      /\ sent' = IF full THEN Flushed(queue, pending) ELSE <<>>
  BY Zenon DEF Enqueue
<1>2. queue \in Seq(Items) /\ Len(queue) \in Nat /\ QueueSize \in Nat \ {0}
  BY LoopAssumption DEF SendInv
<1>3. CASE full
  <2>1. queue' = <<item>> /\ sent' = Flushed(queue, pending)
    BY <1>1, <1>3, Zenon
  <2>2. queue' \in Seq(Items) /\ Len(queue') <= QueueSize
    <3> HIDE DEF Items
    <3> QED
      BY ONLY <1>2, <2>1, item \in Items, SMTT(30), Zenon
  <2>3. sent' \in Seq(Outputs)
    BY <1>2, <2>1, FlushedType, Zenon DEF SendsWhatArrived
  <2> QED
    BY <2>2, <2>3, Zenon
<1>4. CASE ~full
  <2>1. queue' = Append(queue, item) /\ sent' = <<>>
    BY <1>1, <1>4, Zenon
  <2>2. queue' \in Seq(Items) /\ Len(queue') = Len(queue) + 1
    BY ONLY <1>2, <2>1, item \in Items, SMTT(30), Zenon
  <2>3. Len(queue') <= QueueSize
    BY <1>2, <1>4, <2>2
  <2>4. sent' \in Seq(Outputs)
    BY ONLY <2>1, SMTT(30), Zenon
  <2> QED
    BY <2>2, <2>3, <2>4, Zenon
<1> QED
  BY <1>3, <1>4, Zenon

\* The packets of an entry, borrowed for the flow's socket.
LEMMA FreshTypes ==
  ASSUME FlowLaws, NumberLaws, FlowInv, RoundInv, PendingInv, SendInv,
         NEW registered \in BOOLEAN, FreshConnection(registered),
         SendsWhatArrived'
  PROVE  queue' \in Seq(Items) /\ Len(queue') <= QueueSize /\ sent' \in Seq(Outputs)
<1> DEFINE c == Datagram.client
           e == EntryOf(c)
           acquired == Acquired(table, c, BackendOf(c), registered, now)
           p == SlotOf(acquired, c)
           entered == Entered(e, Datagram)
           packets == entered[e].packets
           fd == acquired.flows[p].fd
           borrowed == [i \in DOMAIN packets |-> [fd |-> fd, entry |-> e, i |-> i, of |-> packets[i]]]
<1>1. \/ p = NoSlot /\ sent' = <<>> /\ queue' = queue
      \/ p # NoSlot /\ sent' = Flushed(queue \o borrowed, entered) /\ queue' = <<>>
  BY Zenon DEF FreshConnection
<1>2. table' = acquired
  BY Zenon DEF FreshConnection
<1>3. <<>> \in Seq(Items) /\ <<>> \in Seq(Outputs) /\ Len(<<>>) = 0 /\ QueueSize \in Nat
  BY LoopAssumption
<1>4. CASE p = NoSlot
  BY ONLY <1>1, <1>3, <1>4, SendInv, Zenon DEF SendInv
<1>5. CASE p # NoSlot
  <2>1. sent' = Flushed(queue \o borrowed, entered) /\ queue' = <<>>
    BY ONLY <1>1, <1>5, Zenon
  <2>2. e \in Entries /\ entered[e] \in Entry
    BY FreshFacts
  <2>3. packets \in Seq(Datagrams) /\ e \in 0 .. MaxPending
    BY <2>2, LoopAssumption DEF Entry, Entries
  <2>4. fd \in Fds
    <3>1. Sound(acquired, {})
      <4>1. Next
        BY Zenon DEF Next, Handle
      <4> QED
        BY <1>2, <4>1, TableStep, Zenon
    <3>2. p \in UsedSlots(acquired)
      BY <1>5, Zenon DEF FlowLaws, SlotLaw
    <3>3. acquired.flows[p] \in Flow
      BY ONLY <3>1, <3>2, Zenon DEF Sound, Tables, UsedSlots, Used
    <3> QED
      BY ONLY <3>3, Zenon DEF Flow
  <2> HIDE DEF c, e, acquired, p, entered, packets, fd
  <2>5. Len(packets) \in Nat /\ DOMAIN packets = 1 .. Len(packets)
    BY <2>3
  <2>6. ASSUME NEW i \in 1 .. Len(packets)
        PROVE  [fd |-> fd, entry |-> e, i |-> i, of |-> packets[i]] \in Items
    <3>1. packets[i] \in Datagrams /\ i \in Nat
      BY <2>3
    <3> QED
      BY ONLY <2>3, <2>4, <3>1, Zenon DEF Items
  <2>7. borrowed \in [1 .. Len(packets) -> Items]
    BY ONLY <2>5, <2>6, Zenon
  <2> HIDE DEF borrowed
  <2>8. borrowed \in Seq(Items)
    BY ONLY <2>5, <2>7, SMTT(30), Zenon
  <2>9. queue \o borrowed \in Seq(Items)
    BY ONLY <2>8, SendInv, SMTT(30), Zenon DEF SendInv
  <2>10. sent' \in Seq(Outputs)
    BY <2>1, <2>9, FlushedType, Zenon DEF SendsWhatArrived
  <2> QED
    BY ONLY <1>3, <2>1, <2>10, SMTT(30), Zenon
<1> QED
  BY <1>4, <1>5, Zenon

LEMMA TypeStep ==
  ASSUME FlowLaws, NumberLaws, FlowInv, RoundInv, PendingInv, SendInv, [Next]_vars, SendsWhatArrived'
  PROVE  SendInv'
<1> DEFINE Typed == queue' \in Seq(Items) /\ Len(queue') <= QueueSize /\ sent' \in Seq(Outputs)
<1>1. <<>> \in Seq(Items) /\ <<>> \in Seq(Outputs) /\ Len(<<>>) = 0 /\ QueueSize \in Nat
  BY LoopAssumption
<1>2. ASSUME NEW fd \in Fds \cup {MainFd}, Advance, Enqueue(Borrow(fd)) PROVE Typed
  BY <1>2, AdvanceTypes, EnqueueType, Zenon
<1>3. ASSUME FastPath PROVE Typed
  <2> DEFINE p == SlotOf(table, Datagram.client)
  <2>1. p # NoSlot /\ Advance /\ Enqueue(Borrow(table.flows[p].fd))
    BY <1>3, Zenon DEF FastPath
  <2>2. p \in UsedSlots(table)
    BY <2>1, Zenon DEF FlowLaws, SlotLaw
  <2> HIDE DEF p
  <2>3. table.flows[p].fd \in Fds
    BY <2>2, Zenon DEF FlowInv, Sound, Tables, UsedSlots, Used, Flow
  <2> QED
    BY <1>2, <2>1, <2>3, Zenon
<1>4. ASSUME RelayReply PROVE Typed
  BY <1>2, <1>4, Zenon DEF RelayReply
<1>5. ASSUME NEW registered \in BOOLEAN, KnownSession(registered) PROVE Typed
  <2> DEFINE c == Datagram.client
             p == SlotOf(table', c)
  <2>1. /\ Advance
        /\ \/ p # NoSlot /\ Enqueue(Borrow(table'.flows[p].fd))
           \/ sent' = <<>> /\ queue' = queue
    BY <1>5, Zenon DEF KnownSession
  <2>2. CASE p # NoSlot /\ Enqueue(Borrow(table'.flows[p].fd))
    <3>1. Sound(table', {})
      BY TableStep, Zenon
    <3>2. p \in UsedSlots(table')
      BY <2>2, Zenon DEF FlowLaws, SlotLaw
    <3> HIDE DEF p
    <3>3. table'.flows[p].fd \in Fds
      BY ONLY <3>1, <3>2, Zenon DEF Sound, Tables, UsedSlots, Used, Flow
    <3> QED
      BY <1>2, <2>1, <2>2, <3>3, Zenon
  <2>3. CASE sent' = <<>> /\ queue' = queue
    BY ONLY <1>1, <2>3, SendInv, Zenon DEF SendInv
  <2> QED
    BY <2>1, <2>2, <2>3, Zenon
<1>6. ASSUME NEW registered \in BOOLEAN, FreshConnection(registered) PROVE Typed
  BY <1>6, FreshTypes, Zenon
<1>7. ASSUME EndRound PROVE Typed
  <2>1. sent' = Flushed(queue, pending) /\ queue' = <<>>
    BY <1>7, Zenon DEF EndRound
  <2>2. queue \in Seq(Items)
    BY Zenon DEF SendInv
  <2>3. sent' \in Seq(Outputs)
    BY <2>1, <2>2, FlushedType, Zenon DEF SendsWhatArrived
  <2> QED
    BY ONLY <1>1, <2>1, <2>3, SMTT(30), Zenon
<1>8. ASSUME (sent' = <<>> \/ sent' = sent) /\ queue' = queue PROVE Typed
  BY ONLY <1>1, <1>8, SendInv, Zenon DEF SendInv
<1>9. \/ FastPath \/ RelayReply \/ EndRound
      \/ \E registered \in BOOLEAN : KnownSession(registered) \/ FreshConnection(registered)
      \/ (sent' = <<>> \/ sent' = sent) /\ queue' = queue
  BY Zenon DEF Next, Handle, DropUnroutable, DropInitial, BufferInitial, Sweep, Tick,
         ReceiveClients, ReceiveFlow, Receive, vars
<1>10. Typed
  <2> HIDE DEF Typed
  <2> QED
    BY <1>3, <1>4, <1>5, <1>6, <1>7, <1>8, <1>9, Zenon
<1>11. now' \in 0 .. MaxTime
  <2>1. now' = now \/ (now < MaxTime /\ now' = now + 1)
    BY Zenon DEF Next, Handle, FastPath, RelayReply, KnownSession, FreshConnection, DropUnroutable,
           DropInitial, BufferInitial, Advance, Sweep, Tick, EndRound, ReceiveClients,
           ReceiveFlow, Receive, vars
  <2>2. now \in 0 .. MaxTime /\ MaxTime \in Nat
    BY LoopAssumption, Zenon DEF SendInv
  <2> QED
    BY ONLY <2>1, <2>2, SMTT(30), Zenon
<1> QED
  BY <1>10, <1>11, Zenon DEF SendInv

-----------------------------------------------------------------------------
(* What an entry waits for *)

WaitInv ==
  \A e \in Entries : pending[e] # Unused /\ Whole(pending[e]) => Stranger(table, pending[e].client)

LEMMA WaitStep ==
  ASSUME FlowLaws, NumberLaws, FlowInv, RoundInv, PendingInv, WaitInv, [Next]_vars
  PROVE  WaitInv'
<1> DEFINE c == Datagram.client
           e == EntryOf(c)
<1>1. \A x : Stranger(table, x) => Stranger(table', x) \/ (Opens /\ x = c)
  BY TableStep, Zenon
<1>2. ASSUME NEW f \in Entries, pending'[f] # Unused, Whole(pending'[f]), pending'[f] = pending[f],
             ~Opens \/ pending[f].client # c
      PROVE  Stranger(table', pending'[f].client)
  <2>1. Stranger(table, pending[f].client)
    BY <1>2, Zenon DEF WaitInv
  <2> HIDE DEF c
  <2> QED
    BY ONLY <1>1, <1>2, <2>1, Zenon
<1>3. ASSUME Opens, \A r \in BOOLEAN : ~FreshConnection(r) PROVE WaitInv'
  <2>1. pending' = pending /\ c \in known
    BY <1>3, Zenon DEF Opens, KnownSession
  <2>2. \A f \in Entries : pending[f] # Unused => pending[f].client # c
    BY <2>1, Zenon DEF PendingInv
  <2> HIDE DEF c
  <2> QED
    BY ONLY <1>2, <2>1, <2>2, Zenon DEF WaitInv, Whole, RouteOf
<1>4. ASSUME NEW r \in BOOLEAN, FreshConnection(r) PROVE WaitInv'
  <2> DEFINE entered == Entered(e, Datagram)
             p == SlotOf(table', c)
  <2>1. /\ c \in Clients /\ c \notin known /\ Datagram \in Initials(c) /\ Extracts(FramesOf(Datagram))
    BY <1>4, FreshFacts, Zenon
  <2>2. /\ e \in Entries /\ entered[e].client = c /\ entered \in [Entries -> Entry \cup {Unused}]
        /\ \A f \in Entries : f # e =>
             entered[f] = pending[f] /\ (pending[f] # Unused => pending[f].client # c)
    <3>1. e = EntryOf(c) /\ entered = Entered(e, Datagram)
      BY Zenon
    <3> HIDE DEF c, e, entered
    <3> QED
      BY ONLY NumberLaws, PendingInv, <2>1, <3>1, EnteredFine, SMTT(30), Zenon
  <2>3. \/ p = NoSlot /\ pending' = entered
        \/ pending' = Removed(entered, e)
    BY <1>4, Zenon DEF FreshConnection
  <2>4. p = NoSlot => Stranger(table', c)
    BY Zenon DEF FlowLaws, SlotLaw
  <2> HIDE DEF c, e, entered, p
  <2>5. /\ \A f \in Entries : f # e =>
             pending'[f] = pending[f] /\ (pending[f] # Unused => pending[f].client # c)
        /\ pending'[e] = Unused \/ (pending'[e].client = c /\ Stranger(table', c))
    BY <2>2, <2>3, <2>4, Zenon DEF Removed
  <2> SUFFICES ASSUME NEW f \in Entries, pending'[f] # Unused, Whole(pending'[f])
               PROVE  Stranger(table', pending'[f].client)
    BY Zenon DEF WaitInv, Whole, RouteOf
  <2>6. CASE f = e
    BY <2>5, <2>6, Zenon
  <2>7. CASE f # e
    BY <1>2, <2>5, <2>7, Zenon
  <2> QED
    BY <2>6, <2>7, Zenon
<1>5. ASSUME BufferInitial PROVE WaitInv'
  <2>1. /\ Advance /\ Datagram.kind = "initial" /\ c \notin known /\ Extracts(FramesOf(Datagram))
        /\ ~Whole(Merged(e, Datagram)) /\ pending' = Entered(e, Datagram) /\ table' = table
    BY <1>5, Zenon DEF BufferInitial
  <2>2. c \in Clients /\ Datagram \in Initials(c)
    BY <2>1, DatagramFacts, Zenon
  <2>3. /\ e \in Entries /\ pending'[e] = Merged(e, Datagram)
        /\ \A f \in Entries : f # e => pending'[f] = pending[f]
    BY <2>1, <2>2, EnteredFine
  <2> HIDE DEF c, e
  <2> SUFFICES ASSUME NEW f \in Entries, pending'[f] # Unused, Whole(pending'[f])
               PROVE  Stranger(table', pending'[f].client)
    BY Zenon DEF WaitInv, Whole, RouteOf
  <2>4. f # e
    BY <2>1, <2>3, Zenon
  <2>5. Stranger(table, pending[f].client)
    BY <2>3, <2>4, Zenon DEF WaitInv
  <2> QED
    BY <2>1, <2>3, <2>4, <2>5, Zenon DEF Stranger
<1>6. ASSUME ~Opens, \A f \in Entries : pending'[f] = Unused \/ pending'[f] = pending[f]
      PROVE  WaitInv'
  <2> SUFFICES ASSUME NEW f \in Entries, pending'[f] # Unused, Whole(pending'[f])
               PROVE  Stranger(table', pending'[f].client)
    BY Zenon DEF WaitInv, Whole, RouteOf
  <2> QED
    BY <1>2, <1>6, Zenon
<1>7. \/ Opens \/ BufferInitial
      \/ \A f \in Entries : pending'[f] = Unused \/ pending'[f] = pending[f]
  BY Zenon DEF Next, Handle, Opens, FastPath, RelayReply, DropUnroutable, DropInitial, Sweep, Tick,
         EndRound, ReceiveClients, ReceiveFlow, Receive, vars
<1> QED
  BY <1>3, <1>4, <1>5, <1>6, <1>7, Zenon

-----------------------------------------------------------------------------
(* The invariant *)

LoopInv == RoundInv /\ PendingInv /\ SendsWhatArrived /\ FlowInv /\ SendInv /\ WaitInv

LEMMA FlowInit ==
  ASSUME FlowLaws, Init
  PROVE  FlowInv /\ SendInv /\ WaitInv
<1>1. /\ table = Empty /\ known = {} /\ pending = [e \in Entries |-> Unused]
      /\ recv = [i \in Buffers |-> Unused] /\ round = Idle
      /\ queue = <<>> /\ sent = <<>> /\ now = 0
  BY Zenon DEF Init
<1>2. Sound(table, {})
  BY <1>1, Zenon DEF FlowLaws, EmptyLaw
<1>3. round.last = 0
  BY <1>1, Zenon DEF Idle
<1>4. 1 .. round.last = {}
  BY <1>3
<1>5. FlowInv
  BY <1>1, <1>2, <1>4, Zenon DEF FlowInv
<1>6. WaitInv
  BY <1>1, Zenon DEF WaitInv
<1>7. SendInv
  <2>1. <<>> \in Seq(Items) /\ <<>> \in Seq(Outputs) /\ Len(<<>>) = 0
    OBVIOUS
  <2>2. 0 <= QueueSize /\ 0 \in 0 .. MaxTime
    BY LoopAssumption
  <2> QED
    BY ONLY <1>1, <2>1, <2>2, Zenon DEF SendInv
<1> QED
  BY <1>5, <1>6, <1>7, Zenon

-----------------------------------------------------------------------------
(* The packets of a fresh connection *)

LEMMA StoreStep ==
  ASSUME NumberLaws, AllFit, RoundInv, PendingInv, StoreInv, [Next]_vars
  PROVE  StoreInv'
<1> DEFINE c == Datagram.client
           e == EntryOf(c)
           entered == Entered(e, Datagram)
<1>1. ASSUME Advance, Datagram.kind = "initial", c \notin known, Extracts(FramesOf(Datagram)),
             \A f \in Entries : pending'[f] = Unused \/ pending'[f] = entered[f]
      PROVE  StoreInv'
  <2>1. c \in Clients /\ Datagram \in Initials(c)
    BY <1>1, DatagramFacts, Zenon
  <2>2. /\ e \in Entries /\ entered[e] = Merged(e, Datagram)
        /\ \A f \in Entries : f # e => entered[f] = pending[f]
    BY <1>1, <2>1, EnteredFine
  <2>3. Stores(Merged(e, Datagram))
    BY <1>1, <2>1, <2>2, MergedStores, Zenon
  <2> HIDE DEF entered, e, c
  <2> SUFFICES ASSUME NEW f \in Entries, pending'[f] # Unused PROVE Stores(pending'[f])
    BY Zenon DEF StoreInv, Stores, Carries, FramesOf
  <2>4. CASE f = e
    BY <1>1, <2>2, <2>3, <2>4, Zenon
  <2>5. CASE f # e
    BY <1>1, <2>2, <2>5, Zenon DEF StoreInv
  <2> QED
    BY <2>4, <2>5, Zenon
<1>2. CASE BufferInitial
  <2>1. /\ Advance /\ Datagram.kind = "initial" /\ c \notin known /\ Extracts(FramesOf(Datagram))
        /\ pending' = entered
    BY <1>2, Zenon DEF BufferInitial
  <2> HIDE DEF entered, c
  <2> QED
    BY ONLY <1>1, <2>1, Zenon
<1>3. CASE \E r \in BOOLEAN : FreshConnection(r)
  <2>1. /\ Advance /\ Datagram.kind = "initial" /\ c \notin known /\ Extracts(FramesOf(Datagram))
        /\ pending' = entered \/ pending' = Removed(entered, e)
    BY <1>3, Zenon DEF FreshConnection
  <2>2. c \in Clients /\ Datagram \in Initials(c)
    BY <2>1, DatagramFacts, Zenon
  <2>3. entered \in [Entries -> Entry \cup {Unused}]
    BY <2>1, <2>2, EnteredFine
  <2> HIDE DEF entered, c, e
  <2>4. \A f \in Entries : pending'[f] = Unused \/ pending'[f] = entered[f]
    BY ONLY <2>1, <2>3, Zenon DEF Removed
  <2> QED
    BY ONLY <1>1, <2>1, <2>4, Zenon
<1>4. CASE \A f \in Entries : pending'[f] = Unused \/ pending'[f] = pending[f]
  <2> SUFFICES ASSUME NEW f \in Entries, pending'[f] # Unused PROVE Stores(pending'[f])
    BY Zenon DEF StoreInv, Stores, Carries, FramesOf
  <2> QED
    BY <1>4, Zenon DEF StoreInv
<1>5. \/ BufferInitial \/ (\E r \in BOOLEAN : FreshConnection(r))
      \/ \A f \in Entries : pending'[f] = Unused \/ pending'[f] = pending[f]
  BY Zenon DEF Next, Handle, KnownSession, FastPath, RelayReply, DropUnroutable, DropInitial, Sweep, Tick,
         EndRound, ReceiveClients, ReceiveFlow, Receive, vars
<1> QED
  BY <1>2, <1>3, <1>4, <1>5, Zenon

\* What sender_flush is given goes out, each item in its place.
LEMMA SendsPackets ==
  ASSUME NumberLaws, RoundInv, PendingInv, NEW registered, FreshConnection(registered),
         NEW c, c = Datagram.client, c \in known',
         NEW e, e = EntryOf(c),
         NEW packets, packets = Entered(e, Datagram)[e].packets
  PROVE  \A i \in DOMAIN packets : \E n \in DOMAIN sent' : sent'[n].of = packets[i]
<1> DEFINE acquired == Acquired(table, c, BackendOf(c), registered, now)
           p == SlotOf(acquired, c)
           entered == Entered(e, Datagram)
           fd == acquired.flows[p].fd
           borrowed == [i \in DOMAIN packets |-> [fd |-> fd, entry |-> e, i |-> i, of |-> packets[i]]]
           B == {borrowed[i] : i \in DOMAIN borrowed}
<1>1. entered[e] \in Entry /\ c \notin known
  BY FreshFacts, Zenon
<1>2. packets \in Seq(Datagrams)
  BY <1>1, Zenon DEF Entry
<1>3. sent' = Flushed(queue \o borrowed, entered)
  BY <1>1, Zenon DEF FreshConnection
<1> HIDE DEF acquired, p, entered, fd
<1>4. /\ DOMAIN borrowed = 1 .. Len(packets) /\ Len(packets) \in Nat /\ DOMAIN packets = 1 .. Len(packets)
      /\ \A i \in DOMAIN borrowed : borrowed[i].of = packets[i]
  BY ONLY <1>2, SMTT(30), Zenon
<1>5. borrowed \in Seq(B)
  <2>1. borrowed = [i \in 1 .. Len(packets) |-> borrowed[i]]
    BY <1>2
  <2> HIDE DEF borrowed
  <2> QED
    BY ONLY <1>4, <2>1, SMTT(30), Zenon
<1> HIDE DEF borrowed, B
<1>6. PICK S : queue \in Seq(S)
  BY Zenon DEF RoundInv
<1> DEFINE all == queue \o borrowed
<1>7. queue \in Seq(S \cup B) /\ borrowed \in Seq(S \cup B)
  BY <1>5, <1>6
<1>8. /\ Len(queue) \in Nat /\ Len(borrowed) = Len(packets) /\ Len(all) = Len(queue) + Len(packets)
      /\ \A i \in 1 .. Len(packets) : all[Len(queue) + i] = borrowed[i]
  <2>1. Len(queue) \in Nat /\ Len(borrowed) = Len(packets)
    BY ONLY <1>4, <1>7, SMTT(30), Zenon
  <2>2. /\ Len(all) = Len(queue) + Len(borrowed)
        /\ \A i \in 1 .. Len(borrowed) : all[Len(queue) + i] = borrowed[i]
    <3> DEFINE T == S \cup B
    <3>1. queue \in Seq(T) /\ borrowed \in Seq(T)
      BY <1>7, Zenon
    <3> HIDE DEF T
    <3> QED
      BY ONLY <3>1, SMTT(30), Zenon
  <2> QED
    BY ONLY <2>1, <2>2, Zenon
<1>9. DOMAIN sent' = 1 .. Len(all) /\ \A n \in 1 .. Len(all) : sent'[n].of = all[n].of
  BY <1>3, Zenon DEF Flushed
<1> HIDE DEF all
<1>10. ASSUME NEW i \in DOMAIN packets
       PROVE  Len(queue) + i \in DOMAIN sent' /\ sent'[Len(queue) + i].of = packets[i]
  <2>1. i \in 1 .. Len(packets) /\ Len(queue) + i \in 1 .. Len(all)
    <3>1. i \in 1 .. Len(packets)
      BY <1>4, Zenon
    <3>2. Len(queue) + i \in 1 .. Len(queue) + Len(packets)
      BY <1>4, <1>8, <3>1, WithinSum, Zenon
    <3> QED
      BY <1>8, <3>1, <3>2, Zenon
  <2> QED
    BY <1>4, <1>8, <1>9, <2>1, Zenon
<1> QED
  BY <1>10, Zenon

-----------------------------------------------------------------------------
(* The steps, and what the invariant says *)

LEMMA LoopStep ==
  ASSUME FlowLaws, NumberLaws, LoopInv, [Next]_vars
  PROVE  LoopInv'
<1>1. RoundInv /\ PendingInv /\ SendsWhatArrived /\ FlowInv /\ SendInv /\ WaitInv
  BY Zenon DEF LoopInv
<1>2. RoundInv' /\ SendsWhatArrived'
  BY <1>1, SendStep, Zenon
<1>3. PendingInv'
  BY <1>1, PendingStep, Zenon
<1>4. FlowInv'
  BY <1>1, FlowStep, Zenon
<1>5. SendInv'
  BY <1>1, <1>2, TypeStep, Zenon
<1>6. WaitInv'
  BY <1>1, WaitStep, Zenon
<1> QED
  BY <1>2, <1>3, <1>4, <1>5, <1>6, Zenon DEF LoopInv

LEMMA LoopStreams ==
  ASSUME LoopInv
  PROVE  StreamExact
<1> SUFFICES ASSUME LoopInv, NEW e \in Entries, pending[e] # Unused
             PROVE  /\ Carried(PacketsIn(pending[e])) \subseteq pending[e].crypto.received
                    /\ pending[e].crypto.received \subseteq Carried(Initials(pending[e].client))
  BY Zenon DEF StreamExact
<1>1. EntryFine(pending[e])
  BY Zenon DEF LoopInv, PendingInv
<1>2. \A d \in PacketsIn(pending[e]) : Carries(d) \subseteq pending[e].crypto.received
  BY <1>1, Zenon DEF EntryFine, PacketsIn
<1>3. Carried(PacketsIn(pending[e])) \subseteq pending[e].crypto.received
  BY ONLY <1>2, Zenon DEF Carried
<1> QED
  BY <1>1, <1>3, Zenon DEF EntryFine

LEMMA LoopTypes ==
  ASSUME LoopInv
  PROVE  TypeOK
<1>1. table \in Tables /\ known \subseteq Clients /\ recv \in [Buffers -> Datagrams \cup {Unused}]
  BY Zenon DEF LoopInv, FlowInv, Sound, Routed
<1>2. pending \in [Entries -> Entry \cup {Unused}] /\ next_evict \in 0 .. MaxPending - 1
  BY Zenon DEF LoopInv, PendingInv
<1>3. round \in [next : 1 .. Segments + 1, last : 0 .. Segments]
  <2>1. /\ round = [next |-> round.next, last |-> round.last]
        /\ round.next \in Nat \ {0} /\ round.last \in 0 .. Segments
        /\ round.next <= round.last + 1 /\ Segments \in Nat
    BY LoopAssumption, Zenon DEF LoopInv, RoundInv
  <2>2. round.next \in 1 .. Segments + 1
    BY ONLY <2>1, SMTT(30), Zenon
  <2> QED
    BY ONLY <2>1, <2>2, Zenon
<1>4. /\ queue \in Seq(Items) /\ Len(queue) <= QueueSize
      /\ sent \in Seq(Outputs) /\ now \in 0 .. MaxTime
  BY Zenon DEF LoopInv, SendInv
<1> QED
  BY ONLY <1>1, <1>2, <1>3, <1>4, Zenon DEF TypeOK

LEMMA LoopWaits ==
  ASSUME FlowLaws, NumberLaws, LoopInv
  PROVE  WholeWaitsForFlow
<1> SUFFICES ASSUME LoopInv, NEW e \in Entries, pending[e] # Unused,
                    0 .. SniEnd[pending[e].client] - 1 \subseteq Carried(PacketsIn(pending[e])),
                    BackendOf(pending[e].client) # Unused
             PROVE  SlotOf(table, pending[e].client) = NoSlot
  BY Zenon DEF WholeWaitsForFlow
<1> DEFINE entry == pending[e]
           c == entry.client
           n == ContiguousLen(entry.crypto)
<1>1. entry \in Entry /\ EntryFine(entry)
  BY Zenon DEF LoopInv, PendingInv
<1>2. c \in Clients /\ entry.crypto \in Streams /\ Within(entry.crypto)
  BY <1>1, Zenon DEF Entry, EntryFine
<1>3. Carried(PacketsIn(entry)) \subseteq entry.crypto.received
  <2>1. \A d \in PacketsIn(entry) : Carries(d) \subseteq entry.crypto.received
    BY <1>1, Zenon DEF EntryFine, PacketsIn
  <2> QED
    BY ONLY <2>1, Zenon DEF Carried
<1> HIDE DEF entry
<1>4. /\ n \in 0 .. MaxHello
      /\ \A k \in Nat : 0 .. k - 1 \subseteq entry.crypto.received => k <= n
  BY ONLY NumberLaws, <1>2, ContiguousFacts, Zenon
<1>5. 0 .. SniEnd[c] - 1 \subseteq entry.crypto.received /\ BackendOf(c) # Unused
  BY <1>3, Zenon DEF entry
<1>6. SniEnd[c] \in Nat
  BY <1>2, <1>5, SniEndType, Zenon
<1>7. SniEnd[c] <= n
  BY ONLY <1>4, <1>5, <1>6, Zenon
<1>8. Whole(entry)
  BY <1>2, <1>4, <1>5, <1>7, RouteFacts, Zenon DEF Whole
<1>9. Stranger(table, c)
  BY <1>8, Zenon DEF LoopInv, WaitInv, entry
<1> QED
  BY <1>9, StrangerSlot, Zenon DEF entry

\* A client's session starts with all of its ClientHello sent, up to the SNI.
LEMMA HelloStep ==
  ASSUME NumberLaws, AllFit, RoundInv, PendingInv, StoreInv, [Next]_vars, NEW x \in known' \ known
  PROVE  0 .. SniEnd[x] - 1 \subseteq
           Carried({sent'[n].of : n \in {m \in DOMAIN sent' : sent'[m].of.client = x}})
<1>1. PICK registered \in BOOLEAN : FreshConnection(registered) /\ x = Datagram.client
  BY Zenon DEF Next, Handle, KnownSession, FreshConnection, BufferInitial, FastPath, RelayReply, DropUnroutable,
         DropInitial, Sweep, Tick, EndRound, ReceiveClients, ReceiveFlow, Receive, vars
<1> DEFINE e == EntryOf(x)
           entry == Entered(e, Datagram)[e]
           packets == entry.packets
           n == ContiguousLen(entry.crypto)
           out == {sent'[k].of : k \in {m \in DOMAIN sent' : sent'[m].of.client = x}}
<1>2. /\ x \in Clients /\ Datagram \in Initials(x) /\ Extracts(FramesOf(Datagram))
      /\ e \in Entries /\ entry \in Entry /\ entry.client = x /\ EntryFine(entry) /\ Whole(entry)
      /\ entry = Merged(e, Datagram) /\ BackendOf(x) \in Backends
  <2>1. e = EntryOf(x) /\ entry = Entered(e, Datagram)[e]
    BY Zenon
  <2> HIDE DEF e, entry
  <2>2. Begins(x, e, entry)
    BY ONLY NumberLaws, RoundInv, PendingInv, <1>1, <2>1, FreshBegins, Zenon
  <2> QED
    BY ONLY <2>2, Zenon DEF Begins
<1>3. Stores(entry)
  BY <1>2, MergedStores, Zenon
<1>4. \A i \in DOMAIN packets : \E k \in DOMAIN sent' : sent'[k].of = packets[i]
  BY <1>1, SendsPackets
<1> HIDE DEF entry, e
<1>5. n \in 0 .. MaxHello /\ SniEnd[x] <= n /\ 0 .. n - 1 \subseteq entry.crypto.received
  BY <1>2, WholeFacts, Zenon
<1>6. SniEnd[x] \in Nat
  <2>1. RouteOf(x, n) # Unused
    BY <1>2, Zenon DEF Whole
  <2>2. BackendOf(x) # Unused
    BY <1>2, <1>5, <2>1, RouteFacts, Zenon
  <2> QED
    BY <1>2, <2>2, SniEndType, Zenon
<1> HIDE DEF n
<1>7. 0 .. SniEnd[x] - 1 \subseteq entry.crypto.received
  BY <1>5, <1>6, StreamAssumption
<1>8. \A i \in DOMAIN packets : packets[i] \in out /\ packets[i].kind = "initial"
  <2> SUFFICES ASSUME NEW i \in DOMAIN packets
               PROVE  packets[i] \in out /\ packets[i].kind = "initial"
    BY Zenon
  <2>1. packets[i] \in Initials(x)
    BY <1>2, Zenon DEF EntryFine
  <2>2. packets[i].client = x /\ packets[i].kind = "initial"
    BY <1>2, <2>1, InitialFacts, Zenon
  <2>3. PICK k \in DOMAIN sent' : sent'[k].of = packets[i]
    BY <1>4, Zenon
  <2> QED
    BY <2>2, <2>3, Zenon
<1> HIDE DEF out
<1>9. \A byte \in entry.crypto.received : byte \in Carried(out)
  <2> SUFFICES ASSUME NEW byte \in entry.crypto.received PROVE byte \in Carried(out)
    BY Zenon
  <2>1. PICK i \in DOMAIN packets : byte \in Carries(packets[i])
    BY <1>3, Zenon DEF Stores
  <2>2. packets[i] \in {d \in out : d.kind = "initial"}
    BY <1>8, Zenon
  <2> HIDE DEF packets
  <2> QED
    BY ONLY <2>1, <2>2, Zenon DEF Carried
<1> QED
  BY ONLY <1>7, <1>9, Zenon DEF out

-----------------------------------------------------------------------------
(* The laws of the flow table *)

Flows == INSTANCE FlowTableProofs
           WITH MaxTime <- 0, MaxId <- 0, call <- 0

\* The operators of the flow table are those of FlowTableProofs, so the laws
\* proved there hold of them.
LEMMA FlowLawsHold == FlowLaws
<1>1. \A t, c : Flows!SlotOf(t, c) = SlotOf(t, c) /\ Flows!UsedSlots(t) = UsedSlots(t)
  BY Zenon
  DEF Slots, Flows!Slots, NoSlot, Flows!NoSlot, Used, Flows!Used, UsedSlots,
      Flows!UsedSlots, SlotOf, Flows!SlotOf
<1>2. Flows!NoSlot = NoSlot /\ Flows!NoFd = NoFd /\ Flows!Flow = Flow /\ Flows!Empty = Empty
  BY Zenon
  DEF NoSlot, Flows!NoSlot, NoFd, Flows!NoFd, Flow, Flows!Flow, Slots,
      Flows!Slots, Empty, Flows!Empty
<1>3. \A t, extra : Flows!Sound(t, extra) <=> Sound(t, extra)
  BY Zenon
  DEF Flow, Flows!Flow, Tables, Flows!Tables, Slots, Flows!Slots, Used,
      Flows!Used, UsedSlots, Flows!UsedSlots, Freed, Flows!Freed, Stacked,
      Flows!Stacked, Owned, Flows!Owned, Single, Flows!Single, Dated,
      Flows!Dated, Sound, Flows!Sound, Cardinality, Flows!Cardinality
<1>4. \A t, p : Flows!RemoveSlot(t, p) = RemoveSlot(t, p)
  BY Zenon
  DEF RemoveSlot, Flows!RemoveSlot
<1>5. \A t : Flows!EvictOldest(t) = EvictOldest(t)
  BY Zenon
  DEF Slots, Flows!Slots, NoSlot, Flows!NoSlot, Used, Flows!Used, UsedSlots,
      Flows!UsedSlots, Dist, Flows!Dist, RemoveSlot, Flows!RemoveSlot,
      EvictScans, Flows!EvictScans, EvictWindow, Flows!EvictWindow, IsVictim,
      Flows!IsVictim, EvictOldest, Flows!EvictOldest
<1>6. \A t : Flows!SocketFd(t) = SocketFd(t)
  BY Zenon
  DEF SocketFd, Flows!SocketFd, NoFd, Flows!NoFd
<1>7. \A t, c, b, fd, time : Flows!PutInto(t, c, b, fd, time) = PutInto(t, c, b, fd, time)
  BY Zenon
  DEF PutInto, Flows!PutInto
<1>8. \A t, c, b, fd, time : Flows!PutNew(t, c, b, fd, time) = PutNew(t, c, b, fd, time)
  <2> TAKE t, c, b, fd, time
  <2>1. (IF t.free_slots = <<>> THEN Flows!EvictOldest(t) ELSE t) =
        (IF t.free_slots = <<>> THEN EvictOldest(t) ELSE t)
    BY <1>5, Zenon
  <2> QED
    BY <1>7, <2>1, Zenon DEF PutNew, Flows!PutNew
<1>9. \A t : Flows!SocketOpen(t) = SocketOpen(t)
  BY <1>2, <1>5, <1>6, Zenon
  DEF SocketOpen, Flows!SocketOpen
<1>10. \A t, c, b, time : Flows!Open(t, c, b, time) = Open(t, c, b, time)
  BY <1>2, <1>6, <1>8, <1>9, Zenon
  DEF Open, Flows!Open
<1>11. \A t, p, b, time : Flows!Reuse(t, p, b, time) = Reuse(t, p, b, time)
  BY Zenon
  DEF Reuse, Flows!Reuse
<1>12. \A t, c, b, registered, time :
        Flows!Acquired(t, c, b, registered, time) = Acquired(t, c, b, registered, time)
  BY <1>1, <1>2, <1>4, <1>10, <1>11, SMT
  DEF Acquired, Flows!Acquired
<1>13. \A t, p, time : Flows!IdleAt(t, p, time) <=> IdleAt(t, p, time)
  BY Zenon
  DEF IdleAt, Flows!IdleAt, Used, Flows!Used
<1>14. \A t, time : Flows!ExpireAll(t, time) = ExpireAll(t, time)
  BY Zenon
  DEF ExpireAll, Flows!ExpireAll, ExpireOne, Flows!ExpireOne, IdleAt,
      Flows!IdleAt, Used, Flows!Used, RemoveSlot, Flows!RemoveSlot, After,
      Flows!After
<1>15. \A t, doomed : Flows!EvictBackends(t, doomed) = EvictBackends(t, doomed)
  BY Zenon
  DEF EvictBackends, Flows!EvictBackends, Used, Flows!Used, RemoveSlot,
      Flows!RemoveSlot
<1>16. /\ \A t, u : (Flows!Kept(t, u) <=> Kept(t, u)) /\ (Flows!Opened(t, u) <=> Opened(t, u))
       /\ \A t, u, c, b, time : Flows!Aimed(t, u, c, b, time) <=> Aimed(t, u, c, b, time)
       /\ \A t, c : Flows!Stranger(t, c) <=> Stranger(t, c)
  BY Zenon
  DEF Slots, Flows!Slots, Used, Flows!Used, UsedSlots, Flows!UsedSlots, Kept,
      Flows!Kept, Opened, Flows!Opened, Aimed, Flows!Aimed, Stranger,
      Flows!Stranger
<1>17. Flows!FlowLaws
  BY <1>2, Flows!FlowLawsTheorem,
     CapacityAssumption, FdsAssumption, UnusedAssumption, LimitAssumption, Zenon
<1>18. SlotLaw
  BY <1>16, <1>17, <1>1, <1>2, Zenon
  DEF Flows!FlowLaws, SlotLaw, Flows!SlotLaw
<1>19. EmptyLaw
  BY <1>16, <1>17, <1>2, <1>3, Zenon
  DEF Flows!FlowLaws, EmptyLaw, Flows!EmptyLaw
<1>20. RefreshLaw
  <2> SUFFICES ASSUME NEW t, NEW f, NEW u,
                      NEW p \in UsedSlots(t), Sound(t, {}), f \in Flow,
                      f.client = t.flows[p].client, f.fd = t.flows[p].fd, f.id = t.flows[p].id,
                      u = [t EXCEPT !.flows = [t.flows EXCEPT ![p] = f]]
               PROVE  Sound(u, {})
    BY Zenon DEF RefreshLaw
  <2>1. p \in Flows!UsedSlots(t) /\ Flows!Sound(t, {}) /\ f \in Flows!Flow
    BY <1>1, <1>2, <1>3, Zenon
  <2>2. Flows!Sound(u, {})
    BY <1>17, <2>1, Zenon DEF Flows!FlowLaws, Flows!RefreshLaw
  <2> QED
    BY <1>3, <2>2, Zenon
<1>21. AcquireLaw
  <2> SUFFICES ASSUME NEW t, NEW c, NEW b, NEW registered, NEW time, NEW u,
                      Sound(t, {}), time \in Nat, c \in Clients, b \in Backends,
                      u = Acquired(t, c, b, registered, time)
               PROVE  /\ Sound(u, {}) /\ Aimed(t, u, c, b, time)
                      /\ \/ Opened(t, u)
                         \/ SlotOf(t, c) # NoSlot /\ u = Reuse(t, SlotOf(t, c), b, time)
    BY SMT, Zenon DEF AcquireLaw
  <2>1. Flows!Sound(t, {}) /\ u = Flows!Acquired(t, c, b, registered, time)
    BY <1>3, <1>12, Zenon
  <2>2. Flows!AcquireLaw
    BY <1>17, Zenon DEF Flows!FlowLaws
  <2>3. /\ Flows!Sound(u, {}) /\ Flows!Aimed(t, u, c, b, time)
        /\ \/ Flows!Opened(t, u)
           \/ Flows!SlotOf(t, c) # Flows!NoSlot /\ u = Flows!Reuse(t, Flows!SlotOf(t, c), b, time)
    BY <2>1, <2>2, SMT DEF Flows!AcquireLaw
  <2> QED
    BY <1>1, <1>2, <1>3, <1>11, <1>16, <2>3, Zenon
<1>22. ExpireLaw
  <2> SUFFICES ASSUME NEW t, NEW time, NEW u,
                      Sound(t, {}), u = ExpireAll(t, time)
               PROVE  /\ Sound(u, {}) /\ Kept(t, u)
                      /\ \A q \in UsedSlots(t) : ~IdleAt(t, q, time) => q \in UsedSlots(u)
    BY Zenon DEF ExpireLaw
  <2>1. Flows!Sound(t, {}) /\ u = Flows!ExpireAll(t, time)
    BY <1>3, <1>14, Zenon
  <2>2. /\ Flows!Sound(u, {}) /\ Flows!Kept(t, u)
        /\ \A q \in Flows!UsedSlots(t) : ~Flows!IdleAt(t, q, time) => q \in Flows!UsedSlots(u)
    BY <1>17, <2>1, Zenon DEF Flows!FlowLaws, Flows!ExpireLaw
  <2> QED
    BY <1>1, <1>3, <1>13, <1>16, <2>2, Zenon
<1>23. EvictLaw
  <2> SUFFICES ASSUME NEW t, NEW doomed, NEW u,
                      Sound(t, {}), u = EvictBackends(t, doomed)
               PROVE  /\ Sound(u, {}) /\ Kept(t, u)
                      /\ \A q \in UsedSlots(u) : u.flows[q].backend \notin doomed
                      /\ \A q \in UsedSlots(t) : t.flows[q].backend \notin doomed =>
                                                   q \in UsedSlots(u) /\ u.flows[q] = t.flows[q]
    BY Zenon DEF EvictLaw
  <2>1. Flows!Sound(t, {}) /\ u = Flows!EvictBackends(t, doomed)
    BY <1>3, <1>15, Zenon
  <2>2. /\ Flows!Sound(u, {}) /\ Flows!Kept(t, u)
        /\ \A q \in Flows!UsedSlots(u) : u.flows[q].backend \notin doomed
        /\ \A q \in Flows!UsedSlots(t) : t.flows[q].backend \notin doomed =>
                                           q \in Flows!UsedSlots(u) /\ u.flows[q] = t.flows[q]
    BY <1>17, <2>1, Zenon DEF Flows!FlowLaws, Flows!EvictLaw
  <2> QED
    BY <1>1, <1>3, <1>16, <2>2, Zenon
<1> QED
  BY <1>18, <1>19, <1>20, <1>21, <1>22, <1>23, Zenon DEF FlowLaws

LEMMA NumberLawsHold == NumberLaws
<1>1. Flows!Flow = Flow
  BY Zenon DEF Flow, Flows!Flow
<1>2. Flows!NumberLaws
  BY <1>1, Flows!NumberLawsTheorem,
     CapacityAssumption, FdsAssumption, UnusedAssumption, LimitAssumption, Zenon
<1> QED
  BY <1>2, Zenon
  DEF NumberLaws, Flows!NumberLaws, LeastLaw, Flows!LeastLaw, UpToLaw,
      Flows!UpToLaw, StepsLaw, Flows!StepsLaw, PigeonLaw, Flows!PigeonLaw,
      Into, Flows!Into, Stepwise, Flows!Stepwise

-----------------------------------------------------------------------------
(* Theorems *)

LEMMA LoopInvariant == Spec => []LoopInv
<1>1. LoopInv /\ [Next]_vars => LoopInv'
  BY FlowLawsHold, NumberLawsHold, LoopStep, Zenon
<1>2. Init => LoopInv
  BY FlowLawsHold, LoopInit, FlowInit, Zenon DEF LoopInv
<1> QED
  BY <1>1, <1>2, PTL DEF Spec

\* What sendmmsg is given is what was enqueued, for every size of the batch,
\* of the queue and of the pending entries: no pointer outlives its buffer.
THEOREM SendsWhatArrivedTheorem == Spec => []SendsWhatArrived
<1>1. LoopInv => SendsWhatArrived
  BY Zenon DEF LoopInv
<1> QED
  BY <1>1, LoopInvariant, PTL

\* A client with a session has no pending entry.
THEOREM NoStaleEntryTheorem == Spec => []NoStaleEntry
<1>1. LoopInv => NoStaleEntry
  BY Zenon DEF LoopInv, PendingInv, NoStaleEntry
<1> QED
  BY <1>1, LoopInvariant, PTL

\* The reassembled stream of an entry has all the bytes of the entry's packets
\* and bytes of its client only, however frames and packets were cut, ordered
\* and repeated.
THEOREM StreamExactTheorem == Spec => []StreamExact
<1>1. LoopInv => StreamExact
  BY LoopStreams, Zenon
<1> QED
  BY <1>1, LoopInvariant, PTL

\* Every buffer, entry, queued item and datagram sent is what its type says:
\* the cursors stay inside their arrays, and the queue within its length.
THEOREM TypeOKTheorem == Spec => []TypeOK
<1>1. LoopInv => TypeOK
  BY LoopTypes, Zenon
<1> QED
  BY <1>1, LoopInvariant, PTL

\* A ClientHello that has come up to its SNI, in whatever frames and packets,
\* waits in its entry only while the client has no flow.
THEOREM WholeWaitsForFlowTheorem == Spec => []WholeWaitsForFlow
<1>1. LoopInv => WholeWaitsForFlow
  BY FlowLawsHold, NumberLawsHold, LoopWaits, Zenon
<1> QED
  BY <1>1, LoopInvariant, PTL

\* A fresh connection's backend gets every byte of the ClientHello up to its
\* SNI, for clients that cut it into no more packets than an entry keeps.
THEOREM WholeHelloForwardedTheorem ==
  ASSUME AllFit
  PROVE  Spec => WholeHelloForwarded
<1>1. RoundInv /\ PendingInv /\ StoreInv /\ [Next]_vars =>
        [\A c \in known' \ known :
           0 .. SniEnd[c] - 1 \subseteq
             Carried({sent'[n].of : n \in {m \in DOMAIN sent' : sent'[m].of.client = c}})]_vars
  BY NumberLawsHold, HelloStep, Zenon
<1>2. StoreInv /\ RoundInv /\ PendingInv /\ [Next]_vars => StoreInv'
  BY NumberLawsHold, StoreStep, Zenon
<1>3. Init => StoreInv
  BY Zenon DEF Init, StoreInv
<1>4. LoopInv => RoundInv /\ PendingInv
  BY Zenon DEF LoopInv
<1>5. Spec => []StoreInv
  BY <1>2, <1>3, <1>4, LoopInvariant, PTL DEF Spec
<1> QED
  BY <1>1, <1>4, <1>5, LoopInvariant, PTL DEF Spec, WholeHelloForwarded
=============================================================================
