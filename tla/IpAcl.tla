-------------------------------- MODULE IpAcl --------------------------------
(***************************************************************************)
(* gpustack-ip-acl (main.go): which consumers a request's address may      *)
(* speak for.  A consumer is a sequence, a network a set of addresses, a   *)
(* rule [allowed, denied] two sets of networks, and a key of the           *)
(* configuration [kind, text] with kind "exact", "prefix" (the key ends in *)
(* the wildcard) or "suffix" (it begins with the wildcard).                *)
(*                                                                         *)
(* A raw configuration is [valid, header, from, entries]: "valid" is FALSE *)
(* for one that parseConfig or parseOverrideRuleConfig rejects, "header"   *)
(* tells whether realIPHeader is set, "entries" are <<key, rule>> in the   *)
(* order of the file.                                                      *)
(***************************************************************************)
EXTENDS Naturals, Sequences, SequencesExt

CONSTANTS
  Addr,     \* the addresses that parse
  NoRule    \* the consumer has no rule

ASSUME NoRuleAssumption ==
  NoRule \notin [allowed : SUBSET SUBSET Addr, denied : SUBSET SUBSET Addr]

Keys(patterns) == {patterns[i][1] : i \in DOMAIN patterns}
IsPattern(entry) == entry[1].kind # "exact"

\* The entries with a wildcard, in order, but for those of the known keys.
Patterns(entries, known) ==
  LET upTo[n \in 0..Len(entries)] ==
        IF n = 0 THEN <<>>
        ELSE IF IsPattern(entries[n]) /\ entries[n][1] \notin known
        THEN Append(upTo[n - 1], entries[n]) ELSE upTo[n - 1]
  IN  upTo[Len(entries)]

\* The map of the exact names: a later entry of the file wins.
ExactRules(entries, inherited) ==
  LET named == {i \in DOMAIN entries : ~IsPattern(entries[i])}
      Of(n) == {i \in named : entries[i][1].text = n}
  IN  [n \in DOMAIN inherited \union {entries[i][1].text : i \in named} |->
         IF Of(n) = {} THEN inherited[n]
         ELSE entries[CHOOSE i \in Of(n) : \A j \in Of(n) : j <= i][2]]

NoExact == [n \in {} |-> NoRule]

\* denyAllConfig
DenyAll == [exact |-> NoExact, header |-> FALSE, from |-> {},
            patterns |-> <<<<[kind |-> "prefix", text |-> <<>>],
                             [allowed |-> {}, denied |-> {Addr}]>>>>]

\* parseGlobalConfig
GlobalAcl(raw) ==
  IF ~raw.valid THEN DenyAll
  ELSE [exact |-> ExactRules(raw.entries, NoExact), header |-> raw.header,
        from |-> raw.from, patterns |-> Patterns(raw.entries, {})]

\* parseOverrideRuleConfig and assembleOverride: an inherited pattern is
\* replaced where it stands, a new one comes before all of them.
InPlace(patterns, entries) ==
  [i \in DOMAIN patterns |->
     LET again == {j \in DOMAIN entries : entries[j][1] = patterns[i][1]}
     IN  IF again = {} THEN patterns[i]
         ELSE entries[CHOOSE j \in again : \A k \in again : k <= j]]

OverrideAcl(raw, global) ==
  IF ~raw.valid THEN DenyAll
  ELSE [exact |-> ExactRules(raw.entries, global.exact),
        header |-> raw.header \/ global.header, from |-> global.from,
        patterns |-> Patterns(raw.entries, Keys(global.patterns))
                       \o InPlace(global.patterns, raw.entries)]

-----------------------------------------------------------------------------
Covers(key, consumer) ==
  CASE key.kind = "exact" -> key.text = consumer
    [] key.kind = "prefix" -> IsPrefix(key.text, consumer)
    [] key.kind = "suffix" -> IsSuffix(key.text, consumer)

\* lookupACL
LookupACL(conf, consumer) ==
  LET hits == {i \in DOMAIN conf.patterns : Covers(conf.patterns[i][1], consumer)}
  IN  IF consumer \in DOMAIN conf.exact THEN conf.exact[consumer]
      ELSE IF hits = {} THEN NoRule
      ELSE conf.patterns[CHOOSE i \in hits : \A j \in hits : i <= j][2]

InNetworks(ip, networks) == \E n \in networks : ip \in n

\* resolveTrustedClientIP: from the right, past the trusted entries; a broken
\* entry, or nothing but trusted ones, gives no answer.
StopsAt(fwd, from) == {i \in DOMAIN fwd : fwd[i] \notin Addr \/ ~InNetworks(fwd[i], from)}
\* Fault: read from the left, where the client writes.
FirstStop(fwd, from) == CHOOSE i \in StopsAt(fwd, from) : \A j \in StopsAt(fwd, from) : i <= j
LastStop(fwd, from) == CHOOSE i \in StopsAt(fwd, from) : \A j \in StopsAt(fwd, from) : j <= i

\* resolveClientIP, sourceAddressHost: the peer, unless it is trusted and
\* forwards an address.
ClientIP(conf, source, fwd) ==
  IF /\ conf.header /\ InNetworks(source, conf.from)
     /\ StopsAt(fwd, conf.from) # {} /\ fwd[LastStop(fwd, conf.from)] \in Addr
  THEN fwd[LastStop(fwd, conf.from)] ELSE source

\* enforce: what does not parse is refused, a denial comes first.
Enforced(ip, rule) ==
  \/ ip \notin Addr
  \/ InNetworks(ip, rule.denied)
  \/ rule.allowed # {} /\ ~InNetworks(ip, rule.allowed)

\* onHttpRequestHeaders: no consumer, no rule and an empty rule all pass.
Rejects(conf, consumer, source, fwd) ==
  LET rule == LookupACL(conf, consumer)
  IN  /\ consumer # <<>> /\ rule # NoRule
      /\ rule.allowed # {} \/ rule.denied # {}
      /\ Enforced(ClientIP(conf, source, fwd), rule)
==============================================================================
