---------------------------- MODULE MCSelection -----------------------------
(* Every pattern of up to four symbols against hosts of up to three, before
   a second rule; requests to known hosts without a config file. *)
EXTENDS Selection

MCSeqs(S, n) == UNION {[1..m -> S] : m \in 0..n}

MCRule(scheme, host, path, helper) ==
    [scheme |-> scheme, host |-> host, path |-> path, helper |-> helper, config |-> NoConfig]

MCFirst == {MCRule("", h, p, "s3") : h \in MCSeqs({"a", "b", "*"}, 4), p \in {<<>>, <<"*", "a">>}}
            \cup {MCRule("http", <<"*">>, <<"/", "*">>, "s3")}
MCSecond == {MCRule("https", <<"*">>, <<>>, h) :
                h \in {"", "plugin", "resolverPlugin", "other", "null"}}

MCFiles == {[file |-> "rules", rules |-> <<r>>] : r \in MCFirst}
    \cup {[file |-> "rules", rules |-> <<MCRule("", <<"a", "*">>, p, "gcs"), r>>] :
            r \in MCSecond, p \in {<<>>, <<"/", "a">>}}
    \cup {[file |-> f, rules |-> <<>>] : f \in {"absent", "unreadable", "rules"}}

MCKnown == {GitHubCom, RawGitHub, StorageGoogleapis, <<"b", ".">> \o AmazonAws,
            <<"b", ".">> \o R2Cloudflare, RemoteBuildbuddy, PkgDev, BlobWindows, GhcrIo}

MCRequests ==
    {Https(h, p) : h \in MCSeqs({"a", "b"}, 3) \ {<<>>}, p \in {<<>>, <<"b", "a">>}}
    \cup {Https(h, <<"v2", "name", "blobs", "sha256">>) : h \in MCKnown \cup {<<"a">>}}

=============================================================================
