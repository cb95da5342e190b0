---------------------------- MODULE RouteMatcher ----------------------------
(***************************************************************************)
(* What a gateway has registered, and which registration serves a path     *)
(* (packages/gateway/src/route-matcher.ts, the registration methods and    *)
(* the top of route() in gateway.ts).                                      *)
(*                                                                         *)
(* A path is the sequence of its pieces, with "/" as a piece: "/app/x" is  *)
(* <<"/", "app", "/", "x">> and "/apps" is <<"/", "app", "s">>, so that    *)
(* startsWith() is IsPrefix.  Of two mounts that match one path the longer *)
(* string is the longer sequence.                                          *)
(***************************************************************************)
EXTENDS Naturals, SequencesExt

Slash == <<"/">>
Unset == <<>>        \* an option that is not given
Null  == <<"null">>  \* a documentation path that is switched off

-----------------------------------------------------------------------------
(* Registration. *)

\* What validateMount() accepts; registration throws on any other mount.
ValidMount(mount) == mount # <<>> /\ mount[1] = "/" /\ (Len(mount) > 1 => Last(mount) # "/")

WithoutTrailingSlash(path) == IF Last(path) = "/" THEN Front(path) ELSE path

JoinMount(prefix, mount) ==
  LET joined == WithoutTrailingSlash(prefix) \o (IF mount = Slash THEN <<>> ELSE mount)
  IN  IF joined = <<>> THEN Slash ELSE joined

\* normalizeApiVersion()
VersionPrefix(prefix) == JoinMount(prefix, Slash)

Plain == [kind |-> "service", strip |-> TRUE, auth |-> "unset", scopes |-> {},
          permissions |-> {}, cache |-> [use |-> "unset"], deprecated |-> FALSE]

\* The entries that gateway.service(), gateway.web() and the service() of an
\* API version add.  A registration holds only the options that are given, so
\* that what follows @@ is a default.
ServiceEntry(registration) == registration.config @@ Plain

WebEntry(registration) ==
  registration.config @@ [kind |-> "web", strip |-> FALSE, auth |-> "off"] @@ Plain

VersionEntry(registration) ==
  [registration.config EXCEPT !.mount = JoinMount(VersionPrefix(registration.prefix), @)]
    @@ [deprecated |-> registration.deprecated] @@ Plain

Entry(registration) ==
  CASE registration.by = "web"     -> WebEntry(registration)
    [] registration.by = "service" -> ServiceEntry(registration)
    [] registration.by = "version" -> VersionEntry(registration)

Register(registrations) == [i \in DOMAIN registrations |-> Entry(registrations[i])]

OrElse(value, default) == IF value = Unset THEN default ELSE value

\* buildDefaults()
BuildDefaults(options) ==
  [auth |-> options.auth, scopes |-> options.scopes, permissions |-> options.permissions,
   basePath |-> options.basePath,
   openapi  |-> OrElse(options.openapi, <<"/", "openapi.json">>),
   swagger  |-> OrElse(options.swagger, <<"/", "docs">>),
   scalar   |-> OrElse(options.scalar,
                       IF options.ui = "scalar" THEN <<"/", "scalar">> ELSE Null),
   index    |-> OrElse(options.index, Slash)]

-----------------------------------------------------------------------------
(* Matching. *)

NormalizeMount(mount) ==
  IF mount \in {Slash, <<>>} THEN Slash ELSE WithoutTrailingSlash(mount)

Under(path, mount) ==
  mount = Slash \/ path = mount \/ IsPrefix(Append(mount, "/"), path)

\* The index of the service that serves the path, in a set that is empty when
\* none does: the longest mount, and of equal mounts the first registered.
MatchService(path, services) ==
  LET hits == {i \in DOMAIN services : Under(path, NormalizeMount(services[i].mount))}
      Longer(i, j) == Len(services[i].mount) > Len(services[j].mount)
  IN  {i \in hits : \A j \in hits : Longer(i, j) \/ (~Longer(j, i) /\ i <= j)}

RewrittenPath(path, service) ==
  LET mount == NormalizeMount(service.mount)
  IN  IF mount = Slash \/ ~service.strip THEN path
      ELSE IF path = mount THEN Slash
      ELSE SubSeq(path, Len(mount) + 1, Len(path))

\* pathname without basePath; the prefix test does not look for a "/" after it,
\* and a path outside basePath is routed as it is.
StripBase(path, basePath) ==
  IF basePath = <<>> \/ ~IsPrefix(basePath, path) THEN path
  ELSE IF path = basePath THEN Slash
  ELSE SubSeq(path, Len(basePath) + 1, Len(path))

=============================================================================
