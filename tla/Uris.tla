-------------------------------- MODULE Uris --------------------------------
(***************************************************************************)
(* URIs after url.Parse.  A host name is a sequence of symbols, the dots   *)
(* included, so that a suffix of the string is a suffix of the sequence    *)
(* whether or not it starts at a label.  A path is the sequence of its     *)
(* segments: "" is <<>> and "/" is <<"">>.  A capital letter in a host is  *)
(* a symbol of its own ("GitHub").                                         *)
(***************************************************************************)
EXTENDS Sequences, SequencesExt

Uri(scheme, host, port, path, query) ==
    [scheme |-> scheme, host |-> host, port |-> port, path |-> path, query |-> query]

Https(host, path) == Uri("https", host, "", path, {})

Hostname(u) == u.host

\* url.URL.Host keeps the port.
Host(u) == IF u.port = "" THEN u.host ELSE u.host \o <<":", u.port>>

Lower(symbol) ==
    CASE symbol = "GitHub" -> "github"
      [] symbol = "Storage" -> "storage"
      [] OTHER -> symbol

ToLower(host) == [i \in DOMAIN host |-> Lower(host[i])]

EqualFold(a, b) == ToLower(a) = ToLower(b)

HasSuffix(host, suffix) == IsSuffix(suffix, host)

(***************************************************************************)
(* The hosts the program knows.                                            *)
(***************************************************************************)
Com(name) == <<name, ".", "com">>

GitHubCom == Com("github")
RawGitHub == <<"raw", ".">> \o Com("githubusercontent")
StorageGoogleapis == <<"storage", ".">> \o Com("googleapis")
AmazonAws == Com("amazonaws")
R2Cloudflare == <<"r2", ".">> \o Com("cloudflarestorage")
Buildbuddy == <<"buildbuddy", ".", "io">>
RemoteBuildbuddy == <<"remote", ".">> \o Buildbuddy
PkgDev == <<"pkg", ".", "dev">>
BlobWindows == <<"blob", ".", "core", ".", "windows", ".", "net">>
GhcrIo == <<"ghcr", ".", "io">>
IndexDockerIo == <<"index", ".", "docker", ".", "io">>

\* "." \o host: the suffix of the subdomains of a host.
Below(host) == <<".">> \o host

=============================================================================
