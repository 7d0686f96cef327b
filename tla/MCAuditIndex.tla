---------------------------- MODULE MCAuditIndex ----------------------------
(* AuditIndex on four records: an old exec without a diff, a write from before *)
(* the index, a write and a guest action.  Searches: a word, a part of a word,  *)
(* the word in capitals, a secret that is redacted today, and no word at all.   *)
EXTENDS AuditIndex, TLC

CONSTANTS r1, r2, r3, r4, s1, s2, ui

MCFields ==
    (r1 :> [tool |-> "execute", vmid |-> Null, path |-> Null, ts |-> 2, large |-> FALSE,
            scope |-> "unknown", scopeParts |-> {"know"}, before |-> Null, after |-> Null,
            contains |-> {"nginx", "ngin", "hunter", "--"}, words |-> {"nginx"}, secrets |-> {"hunter"}, diff |-> {}])
 @@ (r2 :> [tool |-> "write", vmid |-> 101, path |-> {"etc"}, ts |-> 1, large |-> TRUE,
            scope |-> "etc", scopeParts |-> {"etc"}, before |-> Null, after |-> "h1",
            contains |-> {"ngin"}, words |-> {"etc"}, secrets |-> {"hunter"}, diff |-> {"nginx"}])
 @@ (r3 :> [tool |-> "write", vmid |-> 101, path |-> {"etc", "var"}, ts |-> 3, large |-> FALSE,
            scope |-> "etc", scopeParts |-> {"etc"}, before |-> "h1", after |-> "h2",
            contains |-> {"NGINX"}, words |-> {"etc", "nginx"}, secrets |-> {}, diff |-> {"hunter"}])
 @@ (r4 :> [tool |-> "accept_truth", vmid |-> Null, path |-> Null, ts |-> 4, large |-> FALSE,
            scope |-> Null, scopeParts |-> Null, before |-> Null, after |-> Null,
            contains |-> {}, words |-> {}, secrets |-> {}, diff |-> {}])

MCTokens == [t \in {"nginx", "NGINX"} |-> {"nginx"}]
              @@ ("ngin" :> {"ngin"}) @@ ("hunter" :> {"hunter"}) @@ ("--" :> {})

NoFilter == [tool |-> Unset, vmid |-> Unset, pathContains |-> Unset, since |-> Unset, until |-> Unset,
              largeOnly |-> FALSE, hashScopeContains |-> Unset, unknownScopeOnly |-> FALSE,
              hashEquals |-> Unset, text |-> Unset]

MCFilters ==
    {NoFilter}
    \cup {[NoFilter EXCEPT !.tool = t] : t \in {"execute", "write"}}
    \cup {[NoFilter EXCEPT !.vmid = 101], [NoFilter EXCEPT !.pathContains = "etc"]}
    \cup {[NoFilter EXCEPT !.since = n, !.until = m] : n \in {1, 2}, m \in {2, 3}}
    \cup {[NoFilter EXCEPT !.largeOnly = TRUE], [NoFilter EXCEPT !.unknownScopeOnly = TRUE]}
    \cup {[NoFilter EXCEPT !.hashEquals = h, !.text = t] : h \in {"h1", "h2"}, t \in {Unset, "nginx"}}
    \cup {[NoFilter EXCEPT !.hashScopeContains = p] : p \in {"know", "etc"}}
    \cup {[NoFilter EXCEPT !.text = t] : t \in DOMAIN MCTokens}
=============================================================================
