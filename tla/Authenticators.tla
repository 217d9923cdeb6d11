--------------------------- MODULE Authenticators ---------------------------
(***************************************************************************)
(* The helpers github, gcs, gar, azstorage, s3, remoteapis and null        *)
(* (authenticate/...): what each caches under, which secrets its Get looks *)
(* up and what it answers.  The answers of remote services are parameters. *)
(*                                                                         *)
(* Besides the fields LookupChain reads, a world has                       *)
(*   hosts   directory -> the github.com token of its hosts.yml            *)
(*   aws     the AWS SDK finds credentials by itself                       *)
(***************************************************************************)
EXTENDS HelperSelection, LookupChain, MemCache

CONSTANTS
    SignatureLife  \* expiresIn of package s3

(***************************************************************************)
(* Responses.  secret is what the credential is made of and for what it    *)
(* was made for: a signed URI, or the scope of a token.                    *)
(***************************************************************************)
Header(name, scheme, secret, for) ==
    [name |-> name, scheme |-> scheme, secret |-> secret, for |-> for]

Answer(expires, header) == [expires |-> expires, headers |-> {header}]
EmptyAnswer == [expires |-> NoExpiry, headers |-> {}]

CacheKeyOf(scheme, host, path, query) ==
    [scheme |-> scheme, host |-> host, path |-> path, query |-> query]

WholeUri(u) == CacheKeyOf(u.scheme, Host(u), u.path, u.query)

\* The scope of a token is written as a key as well.
Scope(name) == CacheKeyOf(name, <<>>, <<>>, {})

-----------------------------------------------------------------------------
(***************************************************************************)
(* CacheKey of each helper.                                                *)
(***************************************************************************)

\* The first two segments of the path.
ProjectAndRepo(u) ==
    LET paths == IF u.path = <<>> THEN <<"">> ELSE u.path
    IN CacheKeyOf(u.scheme, Host(u), SubSeq(paths, 1, IF Len(paths) > 2 THEN 2 ELSE Len(paths)), u.query)

GitHubCacheKeyShared(u) == CacheKeyOf("", GitHubCom, <<>>, {})

GitHubCacheKey(u) == CacheKeyOf("", Host(u), <<>>, {})

GARCacheKey(u) == ProjectAndRepo(u)

AzStorageCacheKey(u) == ProjectAndRepo(u)

GCSCacheKey(u) == CacheKeyOf("https", StorageGoogleapis, <<"">>, {})

CacheKey(helper, u) ==
    CASE helper = "github" -> GitHubCacheKey(u)
      [] helper = "gcs" -> GCSCacheKey(u)
      [] helper = "gar" -> GARCacheKey(u)
      [] helper = "azstorage" -> AzStorageCacheKey(u)
      [] helper \in {"s3", "remoteapis"} -> WholeUri(u)
      [] OTHER -> NoKey

-----------------------------------------------------------------------------
(***************************************************************************)
(* Which requests Get takes on: "go", "empty" (an empty answer) or         *)
(* "unsupported" (an error).                                               *)
(***************************************************************************)
StandardPort(u) == u.port \in {"", "443"}

GitHubSupports(u) ==
    /\ u.scheme = "https"
    /\ \/ EqualFold(Host(u), GitHubCom)
       \/ HasSuffix(ToLower(Host(u)), Below(GitHubCom))
       \/ EqualFold(Host(u), RawGitHub)

GCSSupports(u) == u.scheme = "https" /\ Hostname(u) = StorageGoogleapis /\ StandardPort(u)
GARSupportsWithoutLocation(u) == u.scheme = "https" /\ Hostname(u) = PkgDev /\ StandardPort(u)
GARSupports(u) == u.scheme = "https" /\ HasSuffix(Hostname(u), PkgDev) /\ StandardPort(u)
AzStorageSupports(u) == u.scheme = "https" /\ HasSuffix(Hostname(u), BlobWindows) /\ StandardPort(u)

\* The services of the remote APIs, by the last part of their name.
RemoteServices ==
    {"ByteStream", "PublishBuildEvent", "Fetch", "Push", "ActionCache", "Capabilities",
     "ContentAddressableStorage", "Execution"}

RemoteAPIsSupports(u) ==
    /\ u.scheme \in {"https", "grpc", "grpcs"}
    /\ \E s \in RemoteServices : u.path = <<s>>

Presigned(u) == "X-Amz-Expires" \in u.query

Verdict(helper, u) ==
    LET supports == CASE helper = "github" -> GitHubSupports(u)
                      [] helper = "gcs" -> GCSSupports(u)
                      [] helper = "gar" -> GARSupports(u)
                      [] helper = "azstorage" -> AzStorageSupports(u)
                      [] helper = "remoteapis" -> RemoteAPIsSupports(u)
                      [] helper = "s3" -> u.scheme = "https"
                      [] OTHER -> TRUE
    IN IF helper = "null" \/ (helper = "s3" /\ Presigned(u)) THEN "empty"
       ELSE IF supports THEN "go" ELSE "unsupported"

-----------------------------------------------------------------------------
(***************************************************************************)
(* S3: provider and region by host, default configuration.                 *)
(***************************************************************************)
providerFromHost(host) ==
    IF HasSuffix(host, Below(R2Cloudflare)) THEN "r2"
    ELSE IF HasSuffix(host, Below(AmazonAws)) THEN "aws"
    ELSE "unknown"

\* s3.amazonaws.com and <bucket>.s3.amazonaws.com
awsLegacyGlobalRegion(host) ==
    host = <<"s3", ".">> \o AmazonAws \/ HasSuffix(host, <<".", "s3", ".">> \o AmazonAws)

\* s3.<region>.amazonaws.com and <bucket>.s3.<region>.amazonaws.com
regionFromHost(host) ==
    LET parts == SelectSeq(TrimSuffix(host, Below(AmazonAws)), LAMBDA s : s # ".")
        pathStyle == parts[1] = "s3" /\ Len(parts) > 1
    IN IF HasSuffix(host, Below(R2Cloudflare)) THEN "auto"
       ELSE IF ~HasSuffix(host, Below(AmazonAws)) THEN ""
       ELSE IF awsLegacyGlobalRegion(host) THEN "us-east-1"
       ELSE IF pathStyle THEN IF Len(parts) = 2 THEN parts[2] ELSE ""
       ELSE IF Len(parts) = 3 THEN parts[3] ELSE ""

AccessKeyID == "aws-access-key-id"
SecretAccessKey == "aws-secret-access-key"
SessionToken == "aws-session-token"
CloudflareAPIToken == "cloudflare-api-token"
Region == "aws-default-region"

S3Default(u) ==
    LET aws == <<Keyring("th:aws-access-key-id", AccessKeyID),
                 Keyring("th:aws-secret-access-key", SecretAccessKey),
                 Keyring("th:aws-default-region", Region)>>
        r2 == <<Env("R2_ACCESS_KEY_ID", AccessKeyID),
                Env("R2_SECRET_ACCESS_KEY", SecretAccessKey),
                Env("CLOUDFLARE_API_TOKEN", CloudflareAPIToken),
                Misdeclared(Keyring("th:cloudflare-api-token", CloudflareAPIToken), "env")>>
        isR2 == providerFromHost(Host(u)) = "r2"
    IN [region |-> regionFromHost(Host(u)),
        lookup_chain |-> Default(IF isR2 THEN r2 \o aws ELSE aws)]

GitHubDefault ==
    [read_config_file |-> TRUE,
     lookup_chain |-> Default(<<Env("GH_TOKEN", "default"), Env("GITHUB_TOKEN", "default"),
                                Keyring("gh:github.com", "default")>>)]

Buildbuddys ==
    [auth_method |-> "header", header_name |-> "x-buildbuddy-api-key",
     lookup_chain |-> Default(<<Env("BUILDBUDDY_API_KEY", "default"),
                                Keyring("th:buildbuddy_api_key", "default")>>)]

RemoteAPIsDefault(u) ==
    IF Host(u) = RemoteBuildbuddy \/ HasSuffix(Host(u), Below(Buildbuddy))
    THEN Buildbuddys
    ELSE [auth_method |-> "header", header_name |-> "",
          lookup_chain |-> Default(<<Env("CREDENTIAL_HELPER_REMOTEAPIS_SECRET", "default"),
                                     Keyring("th:remoteapis", "default")>>)]

DefaultConfig(helper, u) ==
    CASE helper = "github" -> GitHubDefault
      [] helper = "s3" -> S3Default(u)
      [] helper = "remoteapis" -> RemoteAPIsDefault(u)
      [] OTHER -> [lookup_chain |-> <<>>]

(***************************************************************************)
(* helperconfig.FromContext: the fields of the config file's fragment      *)
(* replace the defaults; an unknown field is an error.  Helpers without    *)
(* configuration never read the fragment.                                  *)
(***************************************************************************)
FragmentFits(helper, u, fragment) ==
    helper \in {"github", "s3", "remoteapis"} =>
        /\ DOMAIN fragment \subseteq DOMAIN DefaultConfig(helper, u)
        /\ "lookup_chain" \in DOMAIN fragment => Unmarshals(fragment.lookup_chain)

FromContext(helper, u, fragment) == Overlay(fragment, DefaultConfig(helper, u))

-----------------------------------------------------------------------------
(***************************************************************************)
(* The bindings Get looks up, in the order in which it does.               *)
(***************************************************************************)
BindingsOf(helper, u) ==
    CASE helper \in {"github", "remoteapis"} -> <<"default">>
      [] helper = "s3" ->
            <<AccessKeyID>>
            \o (IF providerFromHost(Host(u)) = "r2" THEN <<CloudflareAPIToken>> ELSE <<>>)
            \o <<SecretAccessKey, SessionToken, Region>>
      [] OTHER -> <<>>

Found(got, binding) == binding \in DOMAIN got /\ got[binding] \notin Errors

Or(got, binding, other) == IF Found(got, binding) THEN got[binding] ELSE other

Sha256(token) == "sha256 of " \o token

Signature(got, config, u, secret) ==
    LET static == Or(got, AccessKeyID, "") # "" /\ secret # ""
        keys == IF static THEN <<got[AccessKeyID], secret, Or(got, SessionToken, "")>>
                          ELSE <<"credentials of the AWS SDK">>
    IN Header("Authorization", "AWS4", Append(keys, Or(got, Region, config.region)), WholeUri(u))

\* The derived secret wins over the one that was looked up.
SecretDerivedFirst(got) ==
    IF Found(got, CloudflareAPIToken)
    THEN Sha256(got[CloudflareAPIToken])
    ELSE Or(got, SecretAccessKey, "")

\* The hash of the Cloudflare token, overwritten by a secret that is found.
Secret(got) ==
    Or(got, SecretAccessKey,
       IF Found(got, CloudflareAPIToken) THEN Sha256(got[CloudflareAPIToken]) ELSE "")

(***************************************************************************)
(* The GitHub token: the chain, then, if no source failed, hosts.yml.      *)
(***************************************************************************)
Getenv(world, name) == IF name \in DOMAIN world.env THEN world.env[name] ELSE ""

\* Only the first directory that is configured is read.
configDir(world) ==
    IF Getenv(world, "GH_CONFIG_DIR") # "" THEN Getenv(world, "GH_CONFIG_DIR")
    ELSE IF Getenv(world, "XDG_CONFIG_HOME") # "" THEN Getenv(world, "XDG_CONFIG_HOME") \o "/gh"
    ELSE "~/.config/gh"

\* The token of hosts.yml, or Failed without a file, a host or a token.
hostsFromFile(world) ==
    IF configDir(world) \in DOMAIN world.hosts /\ world.hosts[configDir(world)] # ""
    THEN world.hosts[configDir(world)]
    ELSE Failed

GitHubToken(world, config, looked) ==
    IF looked = NotFound /\ config.read_config_file THEN hostsFromFile(world) ELSE looked

(***************************************************************************)
(* checkTokenExpiration.  Time is counted in hours.  GitHub's header gives *)
(* the end of a token's life as a date, an hour and a zone, which is an    *)
(* offset (form "offset") or a name ("name"), or the header is missing     *)
(* ("none").  The layout 2006-01-02 03:04:05 -0700 wants a numeric offset  *)
(* and an hour of a 12-hour clock: 13 to 23 are out of its range.          *)
(***************************************************************************)
ExpirationHeader(life) ==
    [form |-> life.form, day |-> (life.ends + life.zone) \div 24,
     hour |-> (life.ends + life.zone) % 24, zone |-> life.zone]

ExpirationWithoutZone(header) ==
    IF header.form = "offset" /\ header.hour <= 12
    THEN 24 * header.day + header.hour
    ELSE NoExpiry

checkTokenExpiration(header) ==
    IF header.form = "offset" /\ header.hour <= 12
    THEN 24 * header.day + header.hour - header.zone
    ELSE NoExpiry

GitHubAnswer(u, token, expires) ==
    Answer(expires, Header("Authorization",
                           IF EqualFold(Host(u), RawGitHub) THEN "Basic" ELSE "Bearer",
                           <<token>>, Scope("github")))

\* Google's and Azure's tokens.
ScopeOf(helper) ==
    CASE helper = "gcs" -> Scope("devstorage.read_only")
      [] helper = "gar" -> Scope("cloud-platform.read-only")
      [] helper = "azstorage" -> Scope("storage.azure.com/.default")

TokenAnswer(helper, expires) ==
    Answer(expires, Header("Authorization", "Bearer", <<"token">>, ScopeOf(helper)))

\* The header of the remote APIs; a response without Expires is never cached.
RemoteAPIsFails(config) ==
    \/ config.auth_method \notin {"header", "basic_auth"}
    \/ config.auth_method = "header" /\ config.header_name = ""

RemoteAPIsAnswer(u, config, secret) ==
    Answer(NoExpiry,
           Header(IF config.header_name = "" THEN "authorization" ELSE config.header_name,
                  IF config.auth_method = "basic_auth" THEN "Basic" ELSE "",
                  <<secret>>, WholeUri(u)))

=============================================================================
