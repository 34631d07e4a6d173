----------------------------- MODULE Credentials -----------------------------
(***************************************************************************)
(* How a tool gets its credential: the exchange of what it was configured  *)
(* with, the request that is sent to the client, the answer that is bound  *)
(* to that request, stored and exchanged, and the calls that are resumed.  *)
(*                                                                         *)
(* A credential is a record of strings, "" where a field is missing:       *)
(* `type', `client' (id and secret), `authUri', `state' and `verifier' of  *)
(* a sign-in that was asked for (`pkce': with a code challenge), `code'    *)
(* and `uri' that answer it (a [code, state], or NoUri), `token',          *)
(* `refresh' and `due' (expired).  A scheme is [type, flows, authUrl,      *)
(* tokenUrl]; its flows share their URLs.  What throws is Throws; `reply'  *)
(* is what the token endpoint does: Throws or [token, refresh, due].       *)
(***************************************************************************)
EXTENDS Naturals, SequencesExt, FiniteSetsExt, Functions, TLC

CONSTANTS Throws, Nothing

NoUri == [code |-> "", state |-> ""]
NoCredential ==
  [type |-> "", client |-> "", authUri |-> "", state |-> "", verifier |-> "",
   pkce |-> FALSE, code |-> "", uri |-> NoUri, token |-> "", refresh |-> "", due |-> FALSE]
Interactive(scheme) == scheme.type \in {"oauth2", "openIdConnect"}
Result(credential, exchanged) == [credential |-> credential, exchanged |-> exchanged]

---------------------------------------------------------------------------
(* Exchange and refresh                                                    *)

GetTokenEndpoint(scheme) ==
  CASE scheme.type = "openIdConnect" -> scheme.tokenUrl
    [] scheme.type = "oauth2" /\ scheme.flows # {} -> scheme.tokenUrl
    [] OTHER -> ""

\* The grant types of an OpenID scheme are listed like flows.
DetermineGrantType(scheme) ==
  IF "clientCredentials" \in scheme.flows THEN "clientCredentials"
  ELSE IF \/ "authorizationCode" \in scheme.flows
          \/ scheme.type = "openIdConnect" /\ scheme.flows # {}
  THEN "authorizationCode"
  ELSE "unsupported"

\* What the token endpoint says replaces what the credential said.
Granted(credential, reply) ==
  [credential EXCEPT !.token = reply.token, !.refresh = reply.refresh, !.due = reply.due]

CodeOf(credential) == IF credential.code # "" THEN credential.code ELSE credential.uri.code
StateMatches(credential) ==
  credential.uri # NoUri /\ credential.state # "" => credential.uri.state = credential.state

ExchangeClientCredentials(scheme, credential, reply) ==
  IF GetTokenEndpoint(scheme) = "" \/ credential.client = "" \/ reply = Throws THEN Throws
  ELSE Result(Granted(credential, reply), TRUE)

ExchangeAuthorizationCode(scheme, credential, reply) ==
  IF \/ GetTokenEndpoint(scheme) = "" \/ credential.client = ""
     \/ CodeOf(credential) = "" \/ ~StateMatches(credential) \/ reply = Throws
  THEN Throws
  ELSE Result(Granted(credential, reply), TRUE)

OAuth2Exchange(scheme, credential, reply) ==
  CASE credential.token # "" -> Result(credential, FALSE)
    [] credential.token = "" /\ DetermineGrantType(scheme) = "clientCredentials" ->
         ExchangeClientCredentials(scheme, credential, reply)
    [] credential.token = "" /\ DetermineGrantType(scheme) = "authorizationCode" ->
         ExchangeAuthorizationCode(scheme, credential, reply)
    [] OTHER -> Result(credential, FALSE)

\* A service account's token makes a bearer credential of its own.
ServiceAccountExchange(reply) ==
  IF reply = Throws \/ reply.token = "" THEN Throws
  ELSE Result([NoCredential EXCEPT !.type = "http", !.token = reply.token], TRUE)

\* By the type of the credential; a type without an exchanger is kept as it is.
AutoExchange(scheme, credential, reply) ==
  CASE credential.type \in {"oauth2", "openIdConnect"} -> OAuth2Exchange(scheme, credential, reply)
    [] credential.type = "serviceAccount" -> ServiceAccountExchange(reply)
    [] OTHER -> Result(credential, FALSE)

Or(a, b) == IF a = "" THEN b ELSE a
\* A refresh is best effort: a credential that cannot be refreshed is returned.
Refresh(scheme, credential, reply) ==
  IF \/ credential.refresh = "" \/ ~credential.due \/ GetTokenEndpoint(scheme) = ""
     \/ credential.client = "" \/ reply = Throws
  THEN credential
  ELSE [credential EXCEPT !.token = Or(reply.token, @), !.refresh = Or(reply.refresh, @),
                          !.due = reply.due]

---------------------------------------------------------------------------
(* The request and its answer                                              *)

\* A config is [scheme, key, raw, exchanged]; `fresh' are the random values a
\* new sign-in gets.
AuthorizationEndpoint(scheme) ==
  CASE scheme.type = "openIdConnect" -> scheme.authUrl
    [] scheme.type = "oauth2" /\ scheme.flows # {} -> Or(scheme.authUrl, scheme.tokenUrl)
    [] OTHER -> ""
GenerateAuthUri(scheme, raw, fresh) ==
  [raw EXCEPT !.authUri = AuthorizationEndpoint(scheme), !.state = fresh,
              !.verifier = IF raw.pkce THEN Or(@, fresh) ELSE @]

GenerateAuthRequest(config, fresh) ==
  CASE ~Interactive(config.scheme) \/ config.exchanged.authUri # "" -> config
    [] Interactive(config.scheme) /\ config.exchanged.authUri = "" ->
         IF config.raw.type \notin {"oauth2", "openIdConnect"} THEN Throws
         ELSE IF config.raw.authUri # "" THEN [config EXCEPT !.exchanged = config.raw]
         ELSE IF config.raw.client = "" \/ AuthorizationEndpoint(config.scheme) = "" THEN Throws
         ELSE [config EXCEPT !.exchanged = GenerateAuthUri(config.scheme, config.raw, fresh)]

\* The answer to a sign-in brings a code and nothing else; any other answer
\* is the credential itself.
BindCredential(request, supplied) ==
  IF request.exchanged.authUri = "" THEN supplied
  ELSE IF supplied.code = "" /\ supplied.uri = NoUri THEN Nothing
  ELSE [request.exchanged EXCEPT !.code = Or(supplied.code, @),
                                 !.uri = IF supplied.uri = NoUri THEN @ ELSE supplied.uri]

BindCredentialResponse(request, supplied) ==
  IF supplied = Nothing \/ BindCredential(request, supplied) = Nothing THEN Nothing
  ELSE [request EXCEPT !.exchanged = BindCredential(request, supplied)]

\* `temp' maps keys to the credentials of this run.
ParseAndStoreAuthResponse(temp, config, reply) ==
  LET exchange == OAuth2Exchange(config.scheme, config.exchanged, reply)
  IN CASE ~Interactive(config.scheme) -> (config.key :> config.exchanged) @@ temp
       [] Interactive(config.scheme) /\ exchange = Throws -> Throws
       [] OTHER -> (config.key :> exchange.credential) @@ temp

---------------------------------------------------------------------------
(* The tool's side.  `kept' maps a tool's scheme and credential to what    *)
(* was exchanged for them, over all runs.                                  *)

Get(f, k) == IF k \in DOMAIN f THEN f[k] ELSE Nothing

RequestCredential(tool, fresh) ==
  IF Interactive(tool.scheme) /\ (tool.raw.type \notin {"oauth2", "openIdConnect"}
                                  \/ tool.raw.client = "") THEN Throws
  ELSE GenerateAuthRequest([scheme |-> tool.scheme, key |-> tool.key, raw |-> tool.raw,
                            exchanged |-> NoCredential], fresh)

\* What a call of the tool comes to: the credential it uses, or Nothing and
\* the request it sends (Throws when it cannot ask).
Prepared(kept, uses, asks) == [kept |-> kept, uses |-> uses, asks |-> asks]

PrepareAuthCredentials(tool, kept, temp, reply, fresh) ==
  LET slot == <<tool.scheme, tool.raw>>
      answer == Get(temp, tool.key)
      credential == IF answer # Nothing THEN answer ELSE tool.raw
      exchange == IF credential.type = "" THEN Throws
                  ELSE AutoExchange(tool.scheme, credential, reply)
      keeps == answer # Nothing \/ exchange.exchanged
  IN CASE Get(kept, slot) # Nothing -> Prepared(kept, kept[slot], Nothing)
       [] Get(kept, slot) = Nothing /\ exchange = Throws ->
            Prepared(kept, Nothing, RequestCredential(tool, fresh))
       [] OTHER ->
            Prepared(IF keeps THEN (slot :> exchange.credential) @@ kept ELSE kept,
                     exchange.credential, Nothing)

---------------------------------------------------------------------------
(* The agent's side: events are [who, asks, calls], `asks' mapping the ids *)
(* of the credential requests to [config, call].                           *)

RequestedAuthConfigs(events, ids, me) ==
  LET asking(id) == {i \in DOMAIN events : events[i].who = me /\ id \in DOMAIN events[i].asks}
  IN [id \in {d \in ids : asking(d) # {}} |-> events[Max(asking(id))].asks[id]]

\* responses: a sequence of [id, supplied], what the client sent.  An answer
\* to no request of this agent, or without a credential, is left out.
BoundResponses(events, responses, me) ==
  LET asked == RequestedAuthConfigs(events, {responses[i].id : i \in DOMAIN responses}, me)
      Binds(r) == IF r.id \notin DOMAIN asked THEN Nothing
                  ELSE BindCredentialResponse(asked[r.id].config, r.supplied)
      heard == SelectSeq(responses, LAMBDA r : Binds(r) # Nothing)
  IN [i \in DOMAIN heard |-> [config |-> Binds(heard[i]), call |-> asked[heard[i].id].call]]

\* The first exchange that fails fails the run.
StoreAuth(temp, events, responses, me, reply) ==
  LET Store(t, b) == IF t = Throws THEN Throws
                     ELSE ParseAndStoreAuthResponse(t, b.config, reply)
  IN FoldLeft(Store, temp, BoundResponses(events, responses, me))

\* A toolset that asked has no call to resume.
ToolsToResume(events, responses, me) ==
  {b.call : b \in Range(BoundResponses(events, responses, me))} \ {Nothing}

\* The calls that run again: those of the latest event that made one of them.
Resumed(events, responses, me) ==
  LET calls == ToolsToResume(events, responses, me)
      making == {i \in 1..(Len(events) - 1) : events[i].calls \cap calls # {}}
  IN IF making = {} THEN {} ELSE events[Max(making)].calls \cap calls
=============================================================================
