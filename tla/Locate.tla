------------------------------- MODULE Locate -------------------------------
(***************************************************************************)
(* Where the processes of a user find their files: agent/locate and the    *)
(* shell wrapper tools/credential-helper (Unix).                           *)
(*                                                                         *)
(* A path is the sequence of its components; an absolute one starts with   *)
(* "/" and one that is subject to expansion may start with a placeholder.  *)
(* A process has an environment (a function on the variables that are set) *)
(* and a working directory.  A hash is spelt as what it is computed from.  *)
(***************************************************************************)
EXTENDS Sequences, Maps

Process(env, cwd) == [env |-> env, cwd |-> cwd]

\* path/filepath, and the kernel's view of a path.
IsAbs(path) == path # <<>> /\ Head(path) = "/"
Join(prefix, suffix) == IF prefix = <<>> THEN <<"/">> \o suffix ELSE prefix \o suffix
From(cwd, path) == IF IsAbs(path) THEN path ELSE cwd \o path

\* os: a variable that is set but empty is set; <<>> stands for an error.
Getenv(p, var) == IF var \in DOMAIN p.env THEN p.env[var] ELSE <<>>
Setenv(p, var, value) == [p EXCEPT !.env = With(@, var, value)]
TempDir(p) == IF Getenv(p, "TMPDIR") # <<>> THEN p.env["TMPDIR"] ELSE <<"/", "tmp">>
UserHomeDir(p) == Getenv(p, "HOME")
UserCacheDir(p) ==
    IF Getenv(p, "XDG_CACHE_HOME") # <<>> THEN p.env["XDG_CACHE_HOME"]
    ELSE IF UserHomeDir(p) # <<>> THEN UserHomeDir(p) \o <<".cache">> ELSE <<>>

-----------------------------------------------------------------------------
WorkdirEnv == "CREDENTIAL_HELPER_WORKDIR"
WorkspaceEnv == "CREDENTIAL_HELPER_WORKSPACE_DIRECTORY"
OriginalWorkingDirectoryEnv == "CREDENTIAL_HELPER_ORIGINAL_WORKING_DIRECTORY"

tmpDir(p) == IF "TEST_TMPDIR" \in DOMAIN p.env THEN p.env["TEST_TMPDIR"] ELSE TempDir(p)

cacheDir(p) ==
    IF "TEST_TMPDIR" \in DOMAIN p.env THEN p.env["TEST_TMPDIR"]
    ELSE IF UserCacheDir(p) # <<>> THEN UserCacheDir(p)
    ELSE tmpDir(p)

homeDir(p) == IF UserHomeDir(p) # <<>> THEN UserHomeDir(p) ELSE tmpDir(p)

workdirHash(workspace) == <<"md5">> \o workspace

\* Each of the two returns the process with the variable exported.
setupWorkspaceDirectory(p) ==
    IF WorkspaceEnv \in DOMAIN p.env THEN p
    ELSE IF "BUILD_WORKSPACE_DIRECTORY" \in DOMAIN p.env
    THEN Setenv(p, WorkspaceEnv, p.env["BUILD_WORKSPACE_DIRECTORY"])
    ELSE Setenv(p, WorkspaceEnv, p.cwd)

setupWorkdirOfCwd(p) ==
    IF WorkdirEnv \in DOMAIN p.env THEN p
    ELSE Setenv(p, WorkdirEnv,
                cacheDir(p) \o <<"tweag-credential-helper">> \o workdirHash(p.cwd))

setupWorkdir(p) ==
    IF WorkdirEnv \in DOMAIN p.env THEN p
    ELSE Setenv(p, WorkdirEnv,
                cacheDir(p) \o <<"tweag-credential-helper">> \o workdirHash(Getenv(p, WorkspaceEnv)))

\* MkdirAll fails on the empty path, and the process exits.
SetsUp(p) == Getenv(setupWorkdir(setupWorkspaceDirectory(p)), WorkdirEnv) # <<>>

SetupEnvironmentStays(p) ==
    setupWorkdir(setupWorkspaceDirectory(Setenv(p, OriginalWorkingDirectoryEnv, p.cwd)))

SetupEnvironment(p) ==
    LET located == setupWorkdir(setupWorkspaceDirectory(
                        Setenv(p, OriginalWorkingDirectoryEnv, p.cwd)))
    IN  [located EXCEPT !.cwd = From(@, Getenv(located, WorkdirEnv))]

-----------------------------------------------------------------------------
Prefix(p, placeholder) ==
    CASE placeholder = "%workdir%" -> Getenv(p, WorkdirEnv)
      [] placeholder = "%workspace%" -> Getenv(p, WorkspaceEnv)
      [] placeholder = "%tmp%" -> tmpDir(p)
      [] placeholder = "%cache%" -> cacheDir(p)
      [] placeholder = "~" -> homeDir(p)

Placeholders == {"%workdir%", "%workspace%", "%tmp%", "%cache%", "~"}

\* Every process has changed to the workdir, so a short path omits it.
expandPath(p, input, shortPath) ==
    IF input = <<>> \/ Head(input) \notin Placeholders THEN input
    ELSE IF shortPath /\ Head(input) = "%workdir%" THEN Tail(input)
    ELSE Join(Prefix(p, Head(input)), Tail(input))

LookupPathEnv(p, key, fallback, shortPath) ==
    expandPath(p, IF key \in DOMAIN p.env THEN p.env[key] ELSE fallback, shortPath)

CredentialHelper(p) ==
    LookupPathEnv(p, "CREDENTIAL_HELPER_BIN", <<"%workdir%", "bin", "credential-helper">>, FALSE)

AgentPaths(p) ==
    [socket |-> LookupPathEnv(p, "CREDENTIAL_HELPER_AGENT_SOCKET",
                              <<"%workdir%", "run", "agent.sock">>, TRUE),
     pid |-> LookupPathEnv(p, "CREDENTIAL_HELPER_AGENT_PID",
                           <<"%workdir%", "run", "agent.pid">>, FALSE)]

\* setup-keyring reads its file from where the user is.
RemapToOriginalWorkingDirectory(p, path) == From(Getenv(p, OriginalWorkingDirectoryEnv), path)

-----------------------------------------------------------------------------
(***************************************************************************)
(* tools/credential-helper: an empty variable counts as unset, no           *)
(* placeholder is expanded and $XDG_CACHE_HOME is not looked at.           *)
(***************************************************************************)
Wrapper(p) ==
    IF Getenv(p, WorkspaceEnv) # <<>> THEN p ELSE Setenv(p, WorkspaceEnv, p.cwd)

helper_bin(p) ==
    LET cache == IF Getenv(p, "TEST_TMPDIR") # <<>> THEN p.env["TEST_TMPDIR"]
                 ELSE Join(Getenv(p, "HOME"), <<".cache">>)
        workdir == IF Getenv(p, WorkdirEnv) # <<>> THEN p.env[WorkdirEnv]
                   ELSE cache \o <<"tweag-credential-helper">>
                              \o workdirHash(Getenv(Wrapper(p), WorkspaceEnv))
    IN  IF Getenv(p, "CREDENTIAL_HELPER_BIN") # <<>> THEN p.env["CREDENTIAL_HELPER_BIN"]
        ELSE workdir \o <<"bin", "credential-helper">>

=============================================================================
