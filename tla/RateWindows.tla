------------------------------ MODULE RateWindows ------------------------------
(***************************************************************************)
(* The configuration side of gpustack-rate-limit (config.go, and           *)
(* collectChecks of main.go): which buckets a request is checked against,  *)
(* with which window and quota, at a given second.                         *)
(*                                                                         *)
(* A rate quota is the sequence of its [window, quota] pairs, per_second   *)
(* first and per_custom last.  A calendar period is given by the seconds   *)
(* it starts at, in each time zone until it is compiled.                   *)
(***************************************************************************)
EXTENDS RateRules

CONSTANT Grace   \* ttlGraceSeconds

ASSUME GraceAssumption == Grace \in Nat

\* RateQuota.Limits
Limits(quotas) == SelectSeq(quotas, LAMBDA q : q.window > 0 /\ q.quota > 0)

PeriodStart(starts, t) == Max({s \in starts : s <= t})
PeriodEnd(starts, t) == Min({s \in starts : s > t})

\* A limit is rolling when it has no period starts.
Rolling(q) == [window |-> q.window, starts |-> {}]
Calendar(p) == [window |-> 0, starts |-> p.starts]

\* The clamp keeps the window from being empty at a period's first second.
WindowAt(limit, t) ==
  IF limit.starts = {} THEN limit.window
                       ELSE Max({1, t - PeriodStart(limit.starts, t)})

TTLTwiceWindow(limit, t) == 2 * WindowAt(limit, t)   \* fault: calendars too
TTL(limit, t) ==
  IF limit.starts = {} THEN 2 * limit.window
                       ELSE PeriodEnd(limit.starts, t) - t + Grace
-----------------------------------------------------------------------------
\* The buckets of one combination for one caller, and what the request phase
\* does to each: requests are counted at once, tokens only checked.
Buckets(rule_name, combo, who) ==
  LET key(kind, period) == <<rule_name, combo.name, Base(combo, who), kind, period>>
      entry(k, l, n, m) == [key |-> k, limit |-> l, quota |-> n, mode |-> m]
      rolling(quotas, kind, mode) ==
        [i \in DOMAIN Limits(quotas) |->
           LET q == Limits(quotas)[i]
           IN entry(key(kind, q.window), Rolling(q), q.quota, mode)]
  IN rolling(combo.query, "q", "check_and_add")
     \o rolling(combo.tokens, "t", "check")
     \o [i \in DOMAIN combo.calendar |->
           LET p == combo.calendar[i]
           IN entry(key(p.kind, 0), Calendar(p), p.quota, "check")]

\* collectChecks: the entries of the request phase, in checking order.
Checks(config, who) ==
  LET own == ConfigOf(config, who)
      active == IF Enabled(own, who.path) THEN Active(own.combos, who) ELSE <<>>
  IN FlattenSeq([i \in DOMAIN active |-> Buckets(own.rule_name, active[i], who)])

\* The entries that onHttpStreamDone adds the tokens of the response to, each
\* at the position it was checked at.
Pending(config, who) ==
  LET checks == Checks(config, who)
  IN [i \in {i \in DOMAIN checks : checks[i].mode = "check"} |->
        [checks[i] EXCEPT !.mode = "add"]]

Keys(config, callers) ==
  UNION {{Checks(config, who)[i].key : i \in DOMAIN Checks(config, who)} : who \in callers}
=============================================================================
