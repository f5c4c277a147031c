-------------------------------- MODULE Routes --------------------------------
(***************************************************************************)
(* The routes that the modules register through createModuleRouter, and    *)
(* the chain of middleware each declaration becomes.  A path is a sequence *)
(* of segments below the module's basePath; Param stands for a segment     *)
(* that the declaration leaves open (":id").                               *)
(***************************************************************************)
EXTENDS Integers, Sequences

Param == ":"
NoLimit == [bucket |-> "default", points |-> 0, seconds |-> 0]
Limit(bucket, points, seconds) == [bucket |-> bucket, points |-> points, seconds |-> seconds]

Declared(module, method, path, auth, scopes, idempotent, limit) ==
  [module |-> module, method |-> method, path |-> path, auth |-> auth,
   scopes |-> scopes, idempotent |-> idempotent, limit |-> limit]

Open(module, method, path) == Declared(module, method, path, FALSE, {}, FALSE, NoLimit)
Closed(module, method, path, scope, limit) ==
  Declared(module, method, path, TRUE, {scope}, FALSE, limit)
Creating(module, path, scope, limit) ==
  Declared(module, "post", path, TRUE, {scope}, TRUE, limit)

AuthRoutes ==
  {Declared("auth", "post", <<"register">>, FALSE, {}, TRUE, NoLimit),
   Open("auth", "post", <<"login">>),
   Open("auth", "post", <<"refresh">>),
   Open("auth", "post", <<"logout">>),
   Declared("auth", "post", <<"api-keys">>, TRUE, {}, TRUE, NoLimit),
   Declared("auth", "get", <<"api-keys">>, TRUE, {}, FALSE, NoLimit),
   Declared("auth", "delete", <<"api-keys", Param>>, TRUE, {}, FALSE, NoLimit)}

UrlRoutes ==
  {Creating("url", <<>>, "url:write", NoLimit),
   Closed("url", "get", <<Param>>, "url:read", NoLimit),
   Closed("url", "delete", <<Param>>, "url:write", NoLimit),
   Open("url", "get", <<Param, "redirect">>)}

QrRoutes ==
  {Creating("qr", <<>>, "qr:write", NoLimit),
   Closed("qr", "get", <<>>, "qr:read", NoLimit),
   Closed("qr", "get", <<Param>>, "qr:read", NoLimit),
   Open("qr", "get", <<Param, "scan">>)}

RenderLimit == Limit("pdf-render", 10, 60)
PdfRoutes ==
  {Closed("pdf", "post", <<source>>, "pdf:generate", RenderLimit) : source \in {"html", "url"}}

ReadLimit == Limit("webhooks-read", 120, 60)
WriteLimit == Limit("webhooks-write", 30, 60)
TestLimit == Limit("webhooks-test", 10, 60)

EndpointRoutes ==
  {Closed("webhooks", "get", <<"events">>, "webhooks:read", ReadLimit),
   Creating("webhooks", <<"endpoints">>, "webhooks:write", WriteLimit),
   Closed("webhooks", "get", <<"endpoints">>, "webhooks:read", ReadLimit),
   Closed("webhooks", "get", <<"endpoints", Param>>, "webhooks:read", ReadLimit),
   Closed("webhooks", "patch", <<"endpoints", Param>>, "webhooks:write", WriteLimit),
   Closed("webhooks", "delete", <<"endpoints", Param>>, "webhooks:write", WriteLimit),
   Closed("webhooks", "post", <<"endpoints", Param, "test">>, "webhooks:write", TestLimit)}

DeliveryRoutes ==
  {Closed("webhooks", "get", <<"deliveries">>, "webhooks:read", ReadLimit),
   Closed("webhooks", "get", <<"deliveries", Param>>, "webhooks:read", ReadLimit),
   Closed("webhooks", "post", <<"deliveries", Param, "replay">>, "webhooks:write", WriteLimit)}

UuidLimit == Limit("developer-tools-uuid", 100, 60)
HashLimit == Limit("developer-tools-hash", 60, 60)
JwtLimit == Limit("developer-tools-jwt", 60, 60)
Base64Limit == Limit("developer-tools-base64", 60, 60)
DeveloperToolRoutes ==
  {Closed("developer-tools", "post", <<"uuid">>, "devtools:uuid", UuidLimit),
   Closed("developer-tools", "post", <<"hash">>, "devtools:hash", HashLimit),
   Closed("developer-tools", "post", <<"jwt", "decode">>, "devtools:jwt", JwtLimit)}
  \cup {Closed("developer-tools", "post", <<"base64", way>>, "devtools:encoding", Base64Limit) :
         way \in {"encode", "decode"}}

RouteTable ==
  AuthRoutes \cup UrlRoutes \cup QrRoutes \cup PdfRoutes
    \cup EndpointRoutes \cup DeliveryRoutes \cup DeveloperToolRoutes

\* Every module but auth is behind the loader's guard.
RequiresAuth(module) == module # "auth"

\* path-to-regexp's match, and Express's own matching of a path.
Matches(pattern, path) ==
  /\ Len(pattern) = Len(path)
  /\ \A i \in 1..Len(path) : pattern[i] \in {Param, path[i]}

\* Express answers HEAD with the handlers of GET ...
Serves(t, module, method, path) ==
  /\ t.module = module
  /\ t.method = method \/ (t.method = "get" /\ method = "head")
  /\ Matches(t.path, path)

\* Mutant: declared paths are compared as they are written.
IsPublicRouteLiterally(module, method, path) ==
  \E t \in RouteTable :
    ~t.auth /\ t.module = module /\ t.method = method /\ t.path = path

\* ... but the module's guard looks for a public route of the very method.
IsPublicRoute(module, method, path) ==
  \E t \in RouteTable :
    /\ ~t.auth /\ t.module = module /\ t.method = method
    /\ Matches(t.path, path)

\* Whether some middleware before the handler resolves a credential: the guard
\* that the loader mounts before the module, or the route's own chain.
NeedsCredential(t, method, path) ==
  \/ RequiresAuth(t.module) /\ ~IsPublicRoute(t.module, method, path)
  \/ t.auth

===============================================================================
