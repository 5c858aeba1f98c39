------------------------------ MODULE MCExtAuth ------------------------------
EXTENDS ExtAuth

CONSTANTS r1, r2, w1, w2, kA, kB, kR

\* kR expires while requests run, the others do not.
ExpiryDef == [k \in Key |-> IF k = kR THEN 1 ELSE MaxTime + 1]

Plain(key) == [session |-> "none", key |-> key, secret |-> TRUE, model |-> TRUE, conn |-> TRUE,
               failing |-> TRUE]

\* Every key alone, and each way in which a request differs from that.
Any ==
  {Plain(k) : k \in Key \union {Nobody, Unknown}}
  \union {[Plain(kA) EXCEPT !.secret = FALSE], [Plain(kA) EXCEPT !.session = "valid"],
          [Plain(kA) EXCEPT !.session = "expired"], [Plain(kA) EXCEPT !.model = FALSE],
          [Plain(kA) EXCEPT !.conn = FALSE]}

World(live, open, policy) == [live |-> live, dead |-> {}, open |-> open, policy |-> policy]

\* Both keys with or without restrictions of their own, or kR yet to come.
Worlds == {World(lo[1], lo[2], "authed") : lo \in {<<Key, Key>>, <<Key, {}>>, <<{kA}, {kA}>>}}
  \union {World(Key, Key, p) : p \in Policy} \union {World({kA}, {kA}, "principals")}

\* One connection and every kind of request, or two with the key in refs, one of
\* which falls back.
One == [srv : Worlds, mode : {"authenticated"}, offers : {[r \in Req |-> IF r = r1 THEN Any ELSE {}]}]
  \union [srv : {World(Key, {}, "authed")}, mode : {"closed", "all"},
          offers : {[r \in Req |-> IF r = r1 THEN Any ELSE {}]}]
Two == [srv : {[World({kR}, {kR}, "authed") EXCEPT !.dead = {kA}]},
        mode : {"authenticated"}, offers : {[r \in Req |-> {[Plain(kR) EXCEPT !.failing = (r = r1)]}]}]
OneOrTwo == One \union Two

\* Another key is in refs already.
Later == [srv : {World({kB}, {kB}, "authed")},
          mode : {"authenticated"}, offers : {[r \in Req |-> {Plain(kR)}]}]
=============================================================================
