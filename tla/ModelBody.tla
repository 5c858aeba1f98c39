------------------------------ MODULE ModelBody ------------------------------
(***************************************************************************)
(* The model name inside a request body, and the plugins that rewrite it:  *)
(* gpustack-lb (bodyrewrite.go), gpustack-model-mapper and                 *)
(* gpustack-generic-proxy-router.                                          *)
(*                                                                         *)
(* A body is a record.  "kind" is "none", "json" or "multipart"; "intact"  *)
(* is FALSE for one that does not parse to its end; "parts" are its model  *)
(* fields in order, at most one in JSON, each [file, name]; "turns" are    *)
(* the messages, each [role, texts].  Names are sequences, <<>> is empty.  *)
(***************************************************************************)
EXTENDS Naturals, Sequences, SequencesExt

NoBody == [kind |-> "none", intact |-> TRUE, parts |-> <<>>, turns |-> <<>>]

\* The model a JSON body names, or a multipart one in its first field that
\* is not a file.
Fields(body) == {i \in DOMAIN body.parts : ~body.parts[i].file}
FirstField(body) == CHOOSE i \in Fields(body) : \A j \in Fields(body) : i <= j
ModelIn(body) == IF Fields(body) = {} THEN <<>> ELSE body.parts[FirstField(body)].name

WithModel(body, name) ==
  IF Fields(body) = {} THEN [body EXCEPT !.parts = <<[file |-> FALSE, name |-> name]>>]
  ELSE [body EXCEPT !.parts[FirstField(body)].name = name]

\* planJSONRewrite, planMultipartRewrite and model-mapper's handleJSONBody and
\* handleMultipartBody, with the name wanted for the one that was found.  Any
\* error leaves body and header as they are; a JSON object gets the field it
\* lacks, a multipart body does not.  "set" says whether the header is written.
PlanRewrite(body, wanted) ==
  LET new == IF wanted = <<>> /\ body.kind = "multipart" THEN ModelIn(body) ELSE wanted
      inserts == body.kind = "json" \/ Fields(body) # {}
  IN  IF ~body.intact THEN [set |-> FALSE, header |-> <<>>, body |-> body]
      ELSE [set |-> TRUE, header |-> new,
            body |-> IF new # <<>> /\ inserts THEN WithModel(body, new) ELSE body]

-----------------------------------------------------------------------------
(* gpustack-generic-proxy-router *)

\* splitProviderModel: at the first "/", unless a side of it is empty.
Slashes(name) == {i \in DOMAIN name : name[i] = "/"}
FirstSlash(name) == CHOOSE i \in Slashes(name) : \A j \in Slashes(name) : i <= j
Splits(name) == Slashes(name) # {} /\ FirstSlash(name) \notin {1, Len(name)}
ProviderOf(name) == SubSeq(name, 1, FirstSlash(name) - 1)
BareModel(name) == SubSeq(name, FirstSlash(name) + 1, Len(name))

\* writeRoutingHeaders, and the name it returns for the body.
BodyModel(router, name) ==
  IF router.providerHeader /\ Splits(name) THEN BareModel(name) ELSE name

WriteRoutingHeaders(router, hdr, name) ==
  [hdr EXCEPT
     !.llm = name,
     !.provider = IF router.providerHeader /\ Splits(name) THEN ProviderOf(name) ELSE @,
     !.model = IF router.modelToHeader THEN BodyModel(router, name) ELSE @]

\* extractLastUserMessage: the last text of any user message.
LastUserMessage(body) ==
  LET texts == FlattenSeq([i \in DOMAIN body.turns |->
                 IF body.turns[i].role = "user" THEN body.turns[i].texts ELSE <<>>])
  IN  IF texts = <<>> THEN "" ELSE Last(texts)

\* matchAutoRoutingRule, then the default; <<>> is no model.
AutoRouted(router, body) ==
  LET text == LastUserMessage(body)
      hits == {i \in DOMAIN router.rules : text \in router.rules[i].matches}
  IN  IF text # "" /\ hits # {}
      THEN router.rules[CHOOSE i \in hits : \A j \in hits : i <= j].model
      ELSE router.autoDefault

\* processBodyDrivenJSON: the resolved name, <<>> when the body is left alone.
RoutedModel(router, body) ==
  IF ~body.intact THEN <<>>
  ELSE IF router.auto /\ ModelIn(body) = router.autoName THEN AutoRouted(router, body)
  ELSE ModelIn(body)

RouteJSON(router, hdr, body) ==
  LET name == RoutedModel(router, body)
  IN  IF name = <<>> THEN [hdr |-> hdr, body |-> body]
      ELSE [hdr |-> WriteRoutingHeaders(router, hdr, name),
            body |-> WithModel(body, BodyModel(router, name))]

\* handleMultipartBody: every model field is projected to the headers as it is
\* met, also when the walk fails later and the body stays as it was.
RouteMultipart(router, hdr, body) ==
  LET Field(i) == ~body.parts[i].file
      Rewritten(i) == IF Field(i) /\ BodyModel(router, body.parts[i].name) # <<>>
                      THEN BodyModel(router, body.parts[i].name) ELSE body.parts[i].name
      projected[n \in 0..Len(body.parts)] ==
        IF n = 0 THEN hdr
        ELSE IF Field(n)
        THEN WriteRoutingHeaders(router, projected[n - 1], body.parts[n].name)
        ELSE projected[n - 1]
  IN  [hdr |-> projected[Len(body.parts)],
       body |-> IF body.intact
                THEN [body EXCEPT !.parts =
                        [i \in DOMAIN @ |-> [@[i] EXCEPT !.name = Rewritten(i)]]]
                ELSE body]

RouteBody(router, hdr, body) ==
  IF body.kind = "multipart" THEN RouteMultipart(router, hdr, body)
  ELSE RouteJSON(router, hdr, body)
==============================================================================
