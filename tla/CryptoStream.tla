---------------------------- MODULE CryptoStream ----------------------------
(***************************************************************************)
(* The reassembly of the CRYPTO frames of Initial packets,                 *)
(* src/src/quic_frames.c: qsr_crypto_stream_t and its operations.          *)
(*                                                                         *)
(* The bytes themselves are left out: the frames of one connection agree   *)
(* on them, so data[i] is byte i of its ClientHello wherever received[i].  *)
(***************************************************************************)
EXTENDS Integers, Sequences

CONSTANT MaxHello \* QSR_MAX_CLIENT_HELLO_SIZE

ASSUME StreamAssumption == MaxHello \in Nat \ {0}

Offsets == 0 .. MaxHello - 1
Streams == [received : SUBSET Offsets, len : 0 .. MaxHello,
            first_received : 0 .. MaxHello, last_received : 0 .. MaxHello]

Smaller(m, n) == IF m < n THEN m ELSE n
Larger(m, n) == IF m > n THEN m ELSE n

\* qsr_crypto_stream_init.
NewStream == [received |-> {}, len |-> 0, first_received |-> MaxHello, last_received |-> 0]

\* "skipped" is PADDING, PING or ACK; "bad" any other type, and a frame whose
\* fields run past the end of the packet.
Frames == [type : {"crypto", "skipped", "bad"}, offset : Nat, len : Nat]
Span(f) == f.offset .. f.offset + f.len - 1

Fits(f) == /\ f.offset <= MaxHello /\ f.len <= MaxHello
           /\ f.offset <= MaxHello - f.len

\* Deviation: first_received is that of the first frame.
TakeInOrder(s, f) ==
  [received |-> s.received \cup Span(f),
   len |-> Larger(s.len, f.offset + f.len),
   first_received |-> IF s.received = {} THEN f.offset ELSE s.first_received,
   last_received |-> Larger(s.last_received, f.offset + f.len)]

\* One CRYPTO frame of a packet.
Take(s, f) ==
  [received |-> s.received \cup Span(f),
   len |-> Larger(s.len, f.offset + f.len),
   first_received |-> Smaller(s.first_received, f.offset),
   last_received |-> Larger(s.last_received, f.offset + f.len)]

\* qsr_quic_extract_crypto: it fails at the first bad frame, and on a packet
\* without a CRYPTO frame.
IsCrypto(f) == f.type = "crypto"
Extracts(frames) ==
  /\ \E i \in DOMAIN frames : IsCrypto(frames[i])
  /\ \A i \in DOMAIN frames : /\ frames[i].type # "bad"
                              /\ IsCrypto(frames[i]) => Fits(frames[i])
Extract(frames) ==
  LET taken[n \in 0 .. Len(frames)] ==
        IF n = 0 THEN NewStream
        ELSE IF IsCrypto(frames[n]) THEN Take(taken[n - 1], frames[n])
        ELSE taken[n - 1]
  IN taken[Len(frames)]

\* qsr_crypto_stream_merge: only the interval of src that its bounds name is
\* looked at.
Merge(dest, src) ==
  LET start == IF src.first_received < MaxHello THEN src.first_received ELSE 0
      end == Smaller(src.last_received, MaxHello)
  IN [received |-> dest.received \cup (src.received \cap (start .. end - 1)),
      len |-> Larger(src.len, dest.len),
      first_received |-> Smaller(src.first_received, dest.first_received),
      last_received |-> Larger(src.last_received, dest.last_received)]

\* qsr_crypto_stream_contiguous_len.
ContiguousLen(s) ==
  CHOOSE n \in 0 .. Smaller(s.len, MaxHello) :
    /\ 0 .. n - 1 \subseteq s.received
    /\ n < Smaller(s.len, MaxHello) => n \notin s.received
=============================================================================
