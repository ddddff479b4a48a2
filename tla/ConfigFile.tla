------------------------------ MODULE ConfigFile ------------------------------
(***************************************************************************)
(* The configuration file and what src/src/config.c makes of it.  A file   *)
(* is a sequence of entries in the order they are written: a route, or a   *)
(* setting of one of the other sections.  valid is what the scalar parsers *)
(* say of the entry's values (a port, a timeout, a key in their ranges,    *)
(* host and port both there).                                              *)
(***************************************************************************)
EXTENDS RouteTable

CONSTANTS
  Missing,  \* no file at the path
  Default   \* the settings of qsr_config_default, but for the routes

Route(sni, host, id) ==
  [key |-> "route", sni |-> sni, host |-> host, server_id |-> id, valid |-> TRUE]
Setting(key, value, valid) == [key |-> key, value |-> value, valid |-> valid]

\* The sections and their fields that parse_root and what it calls know.
Settings == {"listen", "idleTimeout", "maxSessions", "cidEncoding", "logging"}

ASSUME DefaultAssumption == Default = [key \in Settings |-> Default[key]]

\* One entry: parse_route_body and qsr_route_table_add, or a setting's parser.
Accepts(cfg, entry) ==
  CASE entry.key = "route" -> entry.valid /\ CanAdd(cfg.routes, entry)
    [] entry.key \in Settings -> entry.valid
    [] OTHER -> FALSE
Apply(cfg, entry) ==
  IF entry.key = "route" THEN [cfg EXCEPT !.routes = Add(@, entry)]
  ELSE [cfg EXCEPT !.settings[entry.key] = entry.value]

\* parse_root: the entries in their order, up to the first that is not
\* accepted; an empty document has the defaults.
Failed == [loaded |-> FALSE]
ParseEntry(result, entry) ==
  IF result.loaded /\ Accepts(result.config, entry)
  THEN [result EXCEPT !.config = Apply(@, entry)] ELSE Failed
Parse(entries) ==
  LET parsed[n \in 0 .. Len(entries)] ==
        IF n = 0
        THEN [loaded |-> TRUE, config |-> [settings |-> Default, routes |-> NewTable]]
        ELSE ParseEntry(parsed[n - 1], entries[n])
  IN parsed[Len(entries)]

\* qsr_config_load.
Load(entries) == IF entries = Missing THEN Failed ELSE Parse(entries)

\* The backends a document names, whether or not it loads.
BackendsIn(entries) ==
  {Resolves[entries[i].host] : i \in {j \in DOMAIN entries :
     entries[j].key = "route" /\ entries[j].host \in DOMAIN Resolves}}
=============================================================================
