---------------------------- MODULE MCRsCompare ----------------------------
(***************************************************************************)
(* The instances of RsCompare that TLC checks: each way a request can be   *)
(* unusual, before, between and after plain ones.                          *)
(***************************************************************************)
EXTENDS RsCompare

Plain == [method |-> "GET", target |-> "home", version |-> "1.1",
          connection |-> "none", upgrade |-> "none", key |-> FALSE,
          many |-> FALSE, body |-> "none"]

Upgrading == [Plain EXCEPT !.target = "room", !.upgrade = "websocket", !.key = TRUE]

Unusual ==
    {[Plain EXCEPT !.method = m] : m \in Methods \cup {"unknown", "garbled"}}
        \cup {[Plain EXCEPT !.target = t] :
                 t \in {"json", "dynamic", "missing", "room", "noroom"}}
        \cup {[Plain EXCEPT !.version = v, !.connection = k] :
                 v \in {"1.0", "2.0", "unknown", "none"}, k \in {"none", "keep-alive"}}
        \cup {[Plain EXCEPT !.connection = "close"], [Plain EXCEPT !.many = TRUE]}
        \cup {[Plain EXCEPT !.method = "POST", !.body = b] :
                 b \in {"whole", "huge", "chunked"}}
        \cup {Upgrading, [Upgrading EXCEPT !.key = FALSE],
              [Upgrading EXCEPT !.upgrade = "h2c"], [Upgrading EXCEPT !.target = "home"]}

MCScripts ==
    UNION {{<<q, Plain>>, <<Plain, q, Plain>>} : q \in Unusual}
        \cup {<<[Plain EXCEPT !.target = "room"], Upgrading>>}

=============================================================================
