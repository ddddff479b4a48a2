---------------------------- MODULE MCReceiveLoop ----------------------------
(* Small instances of ReceiveLoop. *)
EXTENDS ReceiveLoop

CONSTANTS c1, c2, c3, n1, n2, n3, b1

\* The name of c3, where it occurs, has no route.
NameRoutes == [n \in {n1, n2, n3} |-> IF n = n3 THEN Unused ELSE b1]

Extension(type, len, names) == [type |-> type, len |-> len, names |-> names]
Host(type, name) == [type |-> type, name |-> name]

\* A body of 41 bytes up to the extensions, with no session ID, one cipher
\* suite and one compression method.
Hello(extensions, extensions_len) ==
  [type |-> 1, wrapped |-> FALSE, record |-> 0, session |-> 0, ciphers |-> 2,
   compression |-> 1, len |-> 41 + 2 + extensions_len,
   extensions_len |-> extensions_len, extensions |-> extensions]

\* c1: the SNI in the first extension.  c2: in the second, after a name of
\* another type, with an extension behind it.  c3: alone.
ClientHellos ==
  [c \in Clients |->
     IF c = c1 THEN Hello(<<Extension(0, 6, <<Host(0, n1)>>)>>, 10)
     ELSE IF c = c2
     THEN Hello(<<Extension(16, 0, <<>>),
                  Extension(0, 5, <<Host(1, n1), Host(0, n2)>>),
                  Extension(43, 0, <<>>)>>, 17)
     ELSE Hello(<<Extension(0, 6, <<Host(0, n3)>>)>>, 10)]
SniEnds == [c \in Clients |-> IF c = c2 THEN 60 ELSE 57]

Crypto(offset, len) == [type |-> "crypto", offset |-> offset, len |-> len]
Ping == [type |-> "skipped", offset |-> 0, len |-> 0]

\* c1: in two packets, the frames of one out of order.  c2: up to the SNI, and
\* the rest, which ends at the size limit.  c3: in one packet, and a frame
\* past the limit.
Packets ==
  [c \in Clients |->
     IF c = c1 THEN <<<<Crypto(40, 17), Ping, Crypto(0, 20)>>, <<Crypto(20, 20)>>>>
     ELSE IF c = c2 THEN <<<<Crypto(0, 60)>>, <<Ping, Crypto(60, 4)>>>>
     ELSE <<<<Crypto(0, 57)>>, <<Crypto(57, 8)>>>>]
=============================================================================
