----------------------------- MODULE RestTools -----------------------------
(***************************************************************************)
(* The tools an OpenAPI document describes: its references are resolved,   *)
(* its operations become tools with named parameters, and a call of such a *)
(* tool becomes one HTTP request with the tool's credential in it.         *)
(*                                                                         *)
(* A parameter is [original, location, name, required]; a request is       *)
(* [path, query, headers, cookies, body], `query' a set of <<key, value>>, *)
(* headers, cookies and the fields of a body functions of their names.     *)
(***************************************************************************)
EXTENDS Naturals, FiniteSets, SequencesExt, TLC

CONSTANTS SnakeCase(_),     \* toSnakeCaseName, with reserved words renamed
          LowerCase(_),
          Throws, Nothing

Empty == [x \in {} |-> ""]

---------------------------------------------------------------------------
(* The document.  A node is [key, ref, types, kids]: `ref' names the       *)
(* definition it stands for, "" if none; `types' is its `type' field.      *)

\* st = [seen, cache]: the references met so far and what they resolved to.
RECURSIVE Resolve(_, _, _), ResolveKids(_, _, _)
ResolveKids(kids, defs, st) ==
  FoldLeft(LAMBDA acc, kid :
             LET r == Resolve(kid, defs, acc.st)
             IN  [kids |-> Append(acc.kids, r.node), st |-> r.st],
           [kids |-> << >>, st |-> st], kids)

\* A reference met again before it is resolved is cut off; one to nothing stays.
Resolve(node, defs, st) ==
  IF node.ref = "" THEN
    LET r == ResolveKids(node.kids, defs, st) IN [node |-> [node EXCEPT !.kids = r.kids], st |-> r.st]
  ELSE IF node.ref \in st.seen /\ node.ref \notin DOMAIN st.cache
  THEN [node |-> [node EXCEPT !.ref = ""], st |-> st]
  ELSE LET met == [st EXCEPT !.seen = @ \cup {node.ref}]
       IN  IF node.ref \in DOMAIN st.cache
           THEN [node |-> [st.cache[node.ref] EXCEPT !.key = node.key], st |-> met]
           ELSE IF node.ref \notin DOMAIN defs THEN [node |-> node, st |-> met]
           ELSE LET r == Resolve(defs[node.ref], defs, met)
                IN  [node |-> [r.node EXCEPT !.key = node.key],
                     st |-> [r.st EXCEPT !.cache = (node.ref :> r.node) @@ @]]

ResolveReferences(doc, defs) == Resolve(doc, defs, [seen |-> {}, cache |-> Empty]).node

ValidType == {"array", "boolean", "integer", "null", "number", "object", "string"}
SanitizeTypeField(types) == {LowerCase(t) : t \in types} \cap ValidType

\* Only what is inside a schema has its types checked.
RECURSIVE Sanitize(_, _)
Sanitize(node, inSchema) ==
  LET inside == inSchema \/ node.key \in {"schema", "schemas"}
  IN  [node EXCEPT
         !.types = IF inside THEN SanitizeTypeField(@) ELSE @,
         !.kids = [i \in DOMAIN @ |-> Sanitize(@[i], inside)]]

---------------------------------------------------------------------------
(* The operations.                                                         *)

Param(original, location, name, required) ==
  [original |-> original, location |-> location, name |-> name, required |-> required]

OperationParams(op) ==
  [i \in DOMAIN op.params |->
     Param(op.params[i].original, op.params[i].location,
           SnakeCase(op.params[i].original), op.params[i].required)]

\* An object is taken apart into its properties, anything else is the body whole.
BodyParams(body) ==
  CASE body.shape = "none" -> << >>
    [] body.shape = "object" /\ body.props # << >> ->
         [i \in DOMAIN body.props |->
            Param(body.props[i].original, "body", SnakeCase(body.props[i].original),
                  body.props[i].required)]
    [] body.shape = "object" /\ body.props = << >> -> <<Param("", "body", "body", TRUE)>>
    [] body.shape = "array" -> <<Param("array", "body", "body", TRUE)>>
    [] OTHER -> <<Param("body", "body", "body", TRUE)>>

\* The second parameter of a name gets the suffix _1, the third _2.
DedupeParamNames(params) ==
  [i \in DOMAIN params |->
     LET count == Cardinality({k \in 1 .. (i - 1) : params[k].name = params[i].name})
     IN  IF count = 0 THEN params[i]
         ELSE [params[i] EXCEPT !.name = @ \o "_" \o ToString(count)]]

ProcessOperation(op) == DedupeParamNames(OperationParams(op) \o BodyParams(op.body))

JsonSchema(params) ==
  [properties |-> {params[i].name : i \in DOMAIN params},
   required |-> {params[i].name : i \in {k \in DOMAIN params : params[k].required}}]

NoScheme == [type |-> "none", in |-> "", name |-> ""]
Methods == <<"get", "post", "put", "delete", "patch", "head", "options", "trace">>

\* The parameters of a path come after its operation's; a security requirement of
\* the document holds where the operation has none.
CollectOperations(spec) ==
  FlattenSeq([i \in DOMAIN spec.paths |->
    LET item  == spec.paths[i]
        found == SelectSeq(Methods, LAMBDA x : x \in DOMAIN item.operations)
    IN  [k \in DOMAIN found |->
           LET own == item.operations[found[k]]
               op  == [own EXCEPT !.params = @ \o item.params]
               requires == IF op.security # << >> THEN op.security ELSE spec.security
           IN  [name     |-> IF op.id = "" THEN SnakeCase(item.path \o "_" \o found[k])
                             ELSE SnakeCase(op.id),
                method   |-> found[k],
                path     |-> item.segments,
                body     |-> op.body,
                params   |-> ProcessOperation(op),
                scheme   |-> IF requires = << >> THEN NoScheme ELSE spec.schemes[requires[1]]]]])

\* The tools of a set: prefixed names, one scheme for all if one is given.
Toolset(spec, prefix, scheme) ==
  LET ops == CollectOperations(spec)
  IN  [i \in DOMAIN ops |->
         [ops[i] EXCEPT !.name = IF prefix = "" THEN @ ELSE prefix \o "_" \o @,
                        !.scheme = IF scheme = NoScheme THEN @ ELSE scheme]]
GetTools(tools, filter) ==
  SelectSeq(tools, LAMBDA t : filter = {} \/ t.name \in filter)

---------------------------------------------------------------------------
(* The request of one call.                                                *)

ParamNamed(params, name) ==
  params[CHOOSE i \in DOMAIN params :
           /\ params[i].name = name
           /\ \A k \in DOMAIN params : params[k].name = name => k <= i]

\* The arguments for one location by original name: of two, the later argument.
Located(params, args, location) ==
  LET named == {n \in DOMAIN args : \E i \in DOMAIN params : params[i].name = n}
      here  == {n \in named : ParamNamed(params, n).location = location}
  IN  [o \in {ParamNamed(params, n).original : n \in here} |->
         args[CHOOSE n \in here : ParamNamed(params, n).original = o]]

Relative == {".", ".."}
WholeBody == {"body", "array", ""}

\* A path is a sequence of [text, hole]; a hole no argument fills is left as it is.
PrepareRequestParams(tool, args) ==
  LET inPath == Located(tool.params, args, "path")
      query  == Located(tool.params, args, "query")
      body   == Located(tool.params, args, "body")
      whole  == DOMAIN body \cap WholeBody
      data   == [o \in DOMAIN body \ WholeBody |-> body[o]]
  IN  [path |-> [i \in DOMAIN tool.path |->
                   IF tool.path[i].hole \in DOMAIN inPath
                   THEN [text |-> inPath[tool.path[i].hole], hole |-> ""]
                   ELSE tool.path[i]],
       query |-> {<<o, query[o]>> : o \in {x \in DOMAIN query : query[x] # ""}},
       headers |-> Located(tool.params, args, "header"),
       cookies |-> Located(tool.params, args, "cookie"),
       body |-> IF whole # {} THEN [whole |-> body[CHOOSE o \in whole : TRUE], data |-> Empty]
                ELSE [whole |-> Nothing, data |-> data]]

Labelled == {"json", "octet-stream", "plain"}    \* the code sets Content-Type itself
Encoded  == {"form", "multipart"}                \* fetch does

\* An operation that declares no body has what it is given sent as JSON; a type
\* the code does not know sends nothing.
PrepareRequestBody(r, body) ==
  LET given == r.body.whole # Nothing \/ DOMAIN r.body.data # {}
      mime  == IF body.shape = "none" THEN "json" ELSE body.mime
  IN  IF ~given \/ mime \notin Labelled \cup Encoded THEN [r EXCEPT !.body = Nothing]
      ELSE IF mime \in Encoded THEN r
      ELSE [r EXCEPT !.headers = ("Content-Type" :> mime) @@ @]

\* A credential is [type, key], a scheme [type, in, name].  What is neither a key
\* nor a token was not exchanged, and is not sent.
ApplyCredential(r, credential, scheme) ==
  LET authorized(value) == [r EXCEPT !.headers = ("Authorization" :> value) @@ @]
      carrier == IF scheme.type = "apiKey" THEN scheme.in ELSE "unknown" IN
  CASE credential.type = "apiKey" /\ carrier = "header" ->
         [r EXCEPT !.headers = (scheme.name :> credential.key) @@ @]
    [] credential.type = "apiKey" /\ carrier = "query" ->
         [r EXCEPT !.query = @ \cup {<<scheme.name, credential.key>>}]
    [] credential.type = "apiKey" /\ carrier \notin {"header", "query"} ->
         authorized(credential.key)
    [] credential.type = "http" ->
         IF credential.key = "" THEN Throws ELSE authorized("Bearer " \o credential.key)
    [] OTHER -> r

HasCookieHeader(headers) == {"Cookie", "cookie"} \cap DOMAIN headers # {}

\* The call of a tool whose credential is ready: what is sent, or Throws.  A
\* provider's headers go over all others; cookies only where none are set.
RunTool(tool, args, credential, provided) ==
  LET unsafe == \E o \in DOMAIN Located(tool.params, args, "path") :
                  Located(tool.params, args, "path")[o] \in Relative
      filled == PrepareRequestBody(PrepareRequestParams(tool, args), tool.body)
      signed == ApplyCredential(filled, credential, tool.scheme)
  IN  IF unsafe \/ signed = Throws THEN Throws
      ELSE LET sent == [signed EXCEPT !.headers = provided @@ @]
           IN  [sent EXCEPT !.cookies = IF HasCookieHeader(sent.headers) THEN Empty ELSE @]

---------------------------------------------------------------------------
(* Schemes and credentials made from what an application configures.       *)

Locations == {"header", "query", "cookie"}
Bearer == [type |-> "http", in |-> "header", name |-> "Authorization"]

TokenToSchemeCredential(type, location, name, value) ==
  IF type = "apikey" /\ location \in Locations
  THEN [scheme |-> [type |-> "apiKey", in |-> location, name |-> name],
        credential |-> [type |-> IF value = "" THEN "none" ELSE "apiKey", key |-> value]]
  ELSE IF type = "oauth2Token"
  THEN [scheme |-> Bearer,
        credential |-> [type |-> IF value = "" THEN "none" ELSE "http", key |-> value]]
  ELSE Throws

\* The parameter that carries a credential, and its value.
CredentialToParam(scheme, credential) ==
  CASE credential.type = "none" -> Nothing
    [] credential.type = "apiKey" /\ scheme.type = "apiKey" ->
         IF scheme.in \in Locations
         THEN [location |-> scheme.in, original |-> scheme.name, value |-> credential.key]
         ELSE Throws
    [] credential.type = "http" ->
         IF credential.key = "" THEN Throws
         ELSE [location |-> "header", original |-> "Authorization",
               value |-> "Bearer " \o credential.key]
    [] OTHER -> IF scheme.type \in {"oauth2", "openIdConnect"} THEN Nothing ELSE Throws

\* A client's secrets may come wrapped in one object (`{"web": {...}}').
OpenidDictToSchemeCredential(config, secrets) ==
  LET needed == {"client_id", "client_secret"}
      inner  == IF Cardinality(DOMAIN secrets) = 1
                THEN secrets[CHOOSE k \in DOMAIN secrets : TRUE] ELSE Nothing
      dict   == IF inner # Nothing /\ inner.fields # {} /\ needed \subseteq inner.fields
                THEN inner.fields ELSE DOMAIN secrets
  IN  IF {"authorizationEndpoint", "tokenEndpoint"} \subseteq config /\ needed \subseteq dict
      THEN dict ELSE Throws
=============================================================================
