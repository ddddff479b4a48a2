----------------------------- MODULE ClientHello -----------------------------
(***************************************************************************)
(* What qsr_tls_client_hello_sni (src/src/tls_client_hello.c) finds in the *)
(* first n bytes of a ClientHello.                                         *)
(*                                                                         *)
(* A hello is given by the fields that steer the parser: the lengths, the  *)
(* types and, in an SNI extension, its list of names.  Its caller only     *)
(* asks whether there is a name, so the error codes are one value, NoName. *)
(***************************************************************************)
EXTENDS Integers, Sequences

CONSTANT NoName

\* A hello has the type of its message, the declared length of its body (len)
\* and of its extensions (extensions_len), the lengths of the session ID, the
\* cipher suites and the compression methods, and the extensions.  It may be
\* wrapped in a TLS record.  An extension has a type and a length; one of type
\* 0 has names, each of a type (0: host_name) and a name, or NoName where
\* valid_hostname rejects it.
Extensions(names) ==
  [type : Nat, len : Nat, names : Seq([type : Nat, name : names \cup {NoName}])]
Hellos(names) ==
  [type : Nat, wrapped : BOOLEAN, record : Nat, session : Nat, ciphers : Nat,
   compression : Nat, len : Nat, extensions_len : Nat, extensions : Seq(Extensions(names))]

\* parse_sni_extension: the first host_name of the list decides.
SniIn(extension) ==
  LET hosts == {i \in DOMAIN extension.names : extension.names[i].type = 0}
      first == CHOOSE i \in hosts : \A j \in hosts : i <= j
  IN IF hosts = {} THEN NoName ELSE extension.names[first].name

\* r_subreader_available: a child reader on what there is of the n bytes.
Available(remaining, n) == IF n < remaining THEN n ELSE remaining

\* The walk over the extensions, of which `bytes' are there: the first of type
\* 0 decides, and must be there to its end.
ExtensionEnd(extensions, i) ==
  LET end[j \in 0 .. Len(extensions)] ==
        IF j = 0 THEN 0 ELSE end[j - 1] + 4 + extensions[j].len
  IN end[i]
Snis(extensions) == {i \in DOMAIN extensions : extensions[i].type = 0}
FirstSni(extensions) ==
  CHOOSE i \in Snis(extensions) : \A j \in Snis(extensions) : i <= j
SniAmong(extensions, bytes) ==
  IF Snis(extensions) = {} THEN NoName
  ELSE IF ExtensionEnd(extensions, FirstSni(extensions)) > bytes THEN NoName
  ELSE SniIn(extensions[FirstSni(extensions)])

\* The fixed part of the body: version, random, session ID, cipher suites and
\* compression methods.
FixedLen(h) == 34 + 1 + h.session + 2 + h.ciphers + 1 + h.compression

\* Deviation: the declared length of the message must have arrived.
SniOfWhole(h, n) ==
  IF n - 4 < h.len THEN NoName ELSE SniAmong(h.extensions, h.extensions_len)

\* qsr_tls_client_hello_sni on the first n bytes.  A record must be whole, the
\* message and its extensions need not be.
Sni(h, n) ==
  LET message == IF ~h.wrapped THEN n ELSE IF n < 5 + h.record THEN 0 ELSE h.record
      body == Available(message - 4, h.len)
  IN IF h.type # 1 \/ h.ciphers % 2 # 0 \/ body < FixedLen(h) + 2
     THEN NoName
     ELSE SniAmong(h.extensions, Available(body - FixedLen(h) - 2, h.extensions_len))

\* The bytes of a hello up to the end of its SNI extension, or of the record.
SniEndOf(h) ==
  IF h.wrapped THEN 5 + h.record
  ELSE 4 + FixedLen(h) + 2 + ExtensionEnd(h.extensions, FirstSni(h.extensions))
=============================================================================
