---------------------------- MODULE MCCredentials ---------------------------
(* Two processes, every helper, keyrings with two generations of secrets. *)
EXTENDS Credentials

MCObject == <<"bucket", "dir", "object">>

MCGitHub ==
    {Https(GitHubCom, <<"org">>),
     Https(<<"GitHub", ".", "com">>, <<"org">>),
     Https(RawGitHub, <<"file">>),
     Uri("https", GitHubCom, "443", <<"org">>, {})}

MCClouds ==
    {Https(StorageGoogleapis, MCObject),
     Uri("http", StorageGoogleapis, "", MCObject, {}),
     Uri("https", <<"Storage", ".">> \o Com("googleapis"), "443", MCObject, {}),
     Https(<<"eu", "-">> \o PkgDev, MCObject),
     Https(<<"account", ".">> \o BlobWindows, MCObject),
     Https(RemoteBuildbuddy, <<"Execution">>),
     Https(Com("example"), <<"other">>)}

MCR2 == Https(<<"id", ".">> \o R2Cloudflare, <<"object">>)

MCBuckets ==
    {Https(<<"bucket", ".", "s3", ".">> \o AmazonAws, <<"object">>),
     MCR2,
     Uri("https", <<"s3", ".", "eu", ".">> \o AmazonAws, "", <<"object">>, {"X-Amz-Expires"})}

\* An object of a repository, and a request with the key of the repository.
MCPackages == {Https(<<"eu", "-">> \o PkgDev, p) : p \in {MCObject, <<"bucket", "dir">>}}

MCURIs == MCGitHub \cup MCClouds \cup MCBuckets \cup MCPackages

MCBucketServices == {"th:aws-access-key-id", "th:aws-secret-access-key", "th:cloudflare-api-token"}

MCServices == {"gh:github.com"} \cup MCBucketServices

\* One hour in the morning of a zone ahead of UTC, one in its afternoon.
MCLife == ("old" :> [ends |-> 1, form |-> "offset", zone |-> 2])
       @@ ("new" :> [ends |-> 2, form |-> "offset", zone |-> 11])
       @@ ("file" :> [ends |-> 9, form |-> "name", zone |-> 0])
       @@ ("" :> [ends |-> 0, form |-> "none", zone |-> 0])

MCRule(host, helper, config) ==
    [scheme |-> "", host |-> host, path |-> <<>>, helper |-> helper, config |-> config]

MCBase ==
    [file |-> "absent", rules |-> <<>>, env |-> NoConfig, locked |-> FALSE, google |-> {},
     hosts |-> "~/.config/gh" :> "file", aws |-> TRUE, uris |-> MCGitHub,
     services |-> {"gh:github.com"}]

\* The config file puts the keyring before the environment for github.com and
\* uses the remote APIs with basic auth; another one has a misspelt field.
MCRules ==
    <<MCRule(<<"*", ".", "com">>, "github",
             [lookup_chain |-> <<Keyring("gh:github.com", ""), Env("GH_TOKEN", "default")>>]),
      MCRule(<<"*", ".", "io">>, "remoteapis", [auth_method |-> "basic_auth"])>>

\* One that gives the two to different helpers.
MCCollidingRules ==
    <<[MCRule(<<>>, "s3", NoConfig) EXCEPT !.path = <<"*", "/", "dir">>],
      MCRule(<<"*", "dev">>, "gar", NoConfig)>>

MCBuildbuddyKey == "BUILDBUDDY_API_KEY" :> "key"

MCSetups ==
    {MCBase,
     [MCBase EXCEPT !.env = MCBuildbuddyKey, !.uris = MCClouds, !.services = {}],
     [MCBase EXCEPT !.uris = MCBuckets, !.services = MCBucketServices],
     [MCBase EXCEPT !.env = ("R2_ACCESS_KEY_ID" :> "id") @@ ("R2_SECRET_ACCESS_KEY" :> ""),
                    !.aws = FALSE, !.services = MCBucketServices, !.uris = {MCR2}],
     [MCBase EXCEPT !.file = "rules", !.rules = MCRules, !.locked = TRUE,
                    !.env = ("GH_TOKEN" :> "new") @@ MCBuildbuddyKey, !.uris = MCGitHub \cup MCClouds],
     [MCBase EXCEPT !.file = "rules",
                    !.rules = <<MCRule(<<"*">>, "s3", [lookup_chains |-> <<>>])>>],
     [MCBase EXCEPT !.file = "rules", !.rules = MCCollidingRules, !.uris = MCPackages],
     [MCBase EXCEPT !.file = "unreadable"]}

MCSymmetry == Permutations(Getters)

MCKeys == ({CacheKey(FallbackHelperFactory(u, FALSE), u) : u \in MCURIs}
            \cup {CacheKey(h, u) : h \in {"github", "remoteapis", "s3"}, u \in MCURIs}) \ {NoKey}

=============================================================================
