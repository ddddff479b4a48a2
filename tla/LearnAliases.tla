---------------------------- MODULE LearnAliases ----------------------------
(***************************************************************************)
(* The tail of handle_client_packet (src/src/udp.c) for a long-header      *)
(* datagram of a known session: the session is touched, its DCID and its   *)
(* DCID+SCID pair are learned as aliases, and the datagram is sent to the  *)
(* session's backend.  The code keeps a pointer to the session's slot and  *)
(* reads the backend address through it at each of the three uses; `ptr'   *)
(* is that pointer, over the concrete table of SessionTable.               *)
(***************************************************************************)
EXTENDS SessionTable

CONSTANT ZeroAddr  \* the address a zeroed slot holds, one of Backends

VARIABLE packet    \* the datagram being handled, and the pointer
lvars == <<vars, packet>>

\* at: the next use of the pointer; dcid, pair: the keys of the datagram's
\* header; owner: its flow; backend: what the session said when it was found.
NoPacket == [at |-> "none", ptr |-> NoSlot, dcid |-> Unused, pair |-> Unused,
             owner |-> 0, backend |-> Unused]

LearnInit == Init /\ packet = NoPacket

\* &session->backend_addr, read now.
Deref ==
  IF Used(sessions, packet.ptr) THEN sessions[packet.ptr].backend ELSE ZeroAddr

\* A lookup found the session of k; session->last_seen = now.
Find(k, dcid, pair, o) ==
  LET p == Get(sessions, k)
  IN /\ packet.at = "none" /\ call.op = "idle"
     /\ p # NoSlot
     /\ sessions' = [sessions EXCEPT ![p].last_seen = now]
     /\ packet' = [at |-> "dcid", ptr |-> p, dcid |-> dcid,
                   pair |-> pair, owner |-> o, backend |-> sessions[p].backend]
     /\ UNCHANGED <<count, expire_cursor, evict_cursor, mvars, cursor, call, now>>

\* put_alias: backend_valid reads the address first and refuses a zeroed one.
PutAlias(k) ==
  IF Deref = ZeroAddr
  THEN UNCHANGED vars
  ELSE Put(k, Deref, packet.owner)

\* learn_client_long_header_cids.
LearnDcid ==
  /\ packet.at = "dcid" /\ call.op = "idle"
  /\ PutAlias(packet.dcid)
  /\ packet' = [packet EXCEPT !.at = "pair"]
LearnPair ==
  /\ packet.at = "pair" /\ call.op = "idle"
  /\ PutAlias(packet.pair)
  /\ packet' = [packet EXCEPT !.at = "send"]

\* The second walk of that put stores what the pointer shows by then.
LearnRetry ==
  /\ packet.at # "none"
  /\ SecondWalk([call.session EXCEPT !.backend = Deref])
  /\ UNCHANGED packet

\* sender_enqueue.
Send ==
  /\ packet.at = "send" /\ call.op = "idle"
  /\ packet' = NoPacket
  /\ UNCHANGED vars

\* The steps of a put that do not read the address; other packets and the
\* clock between two datagrams.
LearnStep ==
  \/ (Reinsert \/ ReinsertDone \/ PutPressure) /\ UNCHANGED packet
  \/ PutRetry /\ packet.at = "none" /\ UNCHANGED packet
Other ==
  /\ packet.at = "none"
  /\ \/ \E k \in Keys, b \in Backends \ {ZeroAddr} : Put(k, b, 0)
     \/ Tick
  /\ UNCHANGED packet

LearnNext ==
  \/ \E k, dcid, pair \in Keys :
       dcid # pair /\ \E o \in Owners : Find(k, dcid, pair, o)
  \/ LearnDcid \/ LearnPair \/ LearnRetry \/ Send \/ LearnStep \/ Other

LearnSpec == LearnInit /\ [][LearnNext]_lvars

\* "the DCID ... and the DCID+SCID pair both map to the backend" (the comment
\* on learn_client_long_header_cids): once both are learned, neither maps to
\* another backend than the one the session named when it was looked up.
LearnsTheSessionsBackend ==
  packet.at = "send" /\ call.op = "idle" =>
    \A k \in {packet.dcid, packet.pair} :
      Get(sessions, k) # NoSlot
        => sessions[Get(sessions, k)].backend = packet.backend
=============================================================================
