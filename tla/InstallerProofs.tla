--------------------------- MODULE InstallerProofs --------------------------
(***************************************************************************)
(* Proofs about Installer, for every number of installers and clients and  *)
(* every environment: what the processes of a workspace compute from       *)
(* different environments and working directories is the same, and an      *)
(* installation that has the destination to itself replaces the helper.    *)
(***************************************************************************)
EXTENDS Installer, FiniteSetTheorems, SequenceTheorems, TLAPS

-----------------------------------------------------------------------------
(***************************************************************************)
(* The processes of a setup, once they are set up.                         *)
(***************************************************************************)

\* A process of `bazel run`, and where it gets to.
Base(s) == Process(With(s.env, "BUILD_WORKSPACE_DIRECTORY", Workspace), <<"/", "runfiles">>)
Here(s) == SetupEnvironment(Base(s))

Ready(c, s) == SetupEnvironment(IF c \in Getters THEN Wrapper(Started(c, s)) ELSE Started(c, s))

\* The destination of every installer, and where every wrapper looks.
Installed == From(Here(setup).cwd, Destination(Here(setup)))
Sought == From(Workspace, helper_bin(Process(setup.env, Workspace)))

(***************************************************************************)
(* The inductive invariant.                                                *)
(***************************************************************************)
Inodes == [content : Installers \cup {None}, executable : BOOLEAN, writable : BOOLEAN]

Labels == {"start", "shutdown", "remove", "link", "open", "create", "copy", "dial", "exit0", "exit1"}

\* Installers and clients are at labels of their own, and know where they are.
ProcInv ==
    /\ setup \in Setups
    /\ quiet \in BOOLEAN
    /\ latest \in Installers \cup {None}
    /\ pc \in [Processes -> Labels]
    /\ \A i \in Installers : pc[i] # "dial"
    /\ \A g \in Getters : pc[g] \in {"start", "dial", "exit0", "exit1"}
    /\ DOMAIN proc = Processes
    /\ proc = [c \in Processes |-> proc[c]]
    /\ \A c \in Processes : pc[c] = "start" => proc[c] = Started(c, setup)
    /\ \A c \in Processes : Located(c) => proc[c] = Ready(c, setup)
    /\ latest # None => pc[latest] = "exit0"

\* The names of files; the inodes that installers have open.
FileInv ==
    /\ inodes \in Seq(Inodes)
    /\ files = [path \in DOMAIN files |-> files[path]]
    /\ \A path \in DOMAIN files : files[path] \in DOMAIN inodes
    /\ \A path \in DOMAIN files : path = Installed \/ \E i \in Installers : path = Source(i)
    /\ \A i \in Installers : /\ Source(i) \in DOMAIN files
                             /\ inodes[files[Source(i)]].writable = setup.writable
    /\ open = [i \in Installers |-> [from |-> open[i].from, to |-> open[i].to]]
    /\ \A i \in Installers : pc[i] \in {"create", "copy"} => open[i].from = files[Source(i)]
    /\ \A i \in Installers : pc[i] = "copy" =>
        /\ open[i].to \in DOMAIN inodes
        /\ inodes[open[i].to].writable

\* The agents that nobody has told to stop.
Serving == agents \ stopping

\* An agent is at the rendezvous.
AgentInv ==
    /\ stopping \subseteq agents
    /\ \A a \in agents :
        /\ a.inode \in DOMAIN inodes
        /\ IsAbs(a.socket) /\ IsAbs(a.pid)
        /\ AbsoluteDirectories =>
            a.socket = Rendezvous(Here(setup)).socket /\ a.pid = Rendezvous(Here(setup)).pid

Intact == \A i \in Installers : inodes[files[Source(i)]].content = i

\* An installation that is under way has the destination to itself.
Alone == \A c, d \in Processes : Busy(c) /\ Busy(d) /\ c # d => c \in Getters /\ d \in Getters

Replacing == {"remove", "link", "open", "create", "copy"}

QuietInv ==
    /\ Alone
    /\ Intact
    /\ \A i \in Installers : pc[i] \in {"link", "open", "create"} => Installed \notin DOMAIN files
    /\ \A i \in Installers : pc[i] = "copy" =>
        /\ Installed \in DOMAIN files /\ files[Installed] = open[i].to
        /\ \A j \in Installers : files[Source(j)] # open[i].to
    /\ AbsoluteDirectories =>
        /\ \A i \in Installers : pc[i] \in Replacing => Serving = {}
        /\ \A a \in Serving : Runs(Installed) /\ a.inode = files[Installed]
    /\ latest # None =>
        /\ \A i \in Installers : ~Busy(i)
        /\ Installed \in DOMAIN files
        /\ inodes[files[Installed]].content = latest

InstallerInv ==
    /\ ProcInv
    /\ FileInv
    /\ AgentInv
    /\ ~setup.writable => Intact
    /\ quiet => QuietInv

-----------------------------------------------------------------------------
(***************************************************************************)
(* agent/locate: what a process computes depends on its environment, but   *)
(* not on the variables that differ between the processes of a workspace.  *)
(***************************************************************************)
IsProcess(p) == p = [env |-> p.env, cwd |-> p.cwd]

Unread == {OriginalWorkingDirectoryEnv, "BUILD_WORKSPACE_DIRECTORY"}

SameVar(p, q, var) ==
    /\ var \in DOMAIN p.env <=> var \in DOMAIN q.env
    /\ var \in DOMAIN p.env => p.env[var] = q.env[var]

Alike(p, q) == p.cwd = q.cwd /\ \A var : var \notin Unread => SameVar(p, q, var)

LEMMA VariablesDiffer ==
    /\ WorkdirEnv # WorkspaceEnv
    /\ WorkdirEnv \notin Unread /\ WorkspaceEnv \notin Unread
    /\ \A var \in {"TMPDIR", "HOME", "XDG_CACHE_HOME", "TEST_TMPDIR", "CREDENTIAL_HELPER_BIN",
                   "CREDENTIAL_HELPER_AGENT_SOCKET", "CREDENTIAL_HELPER_AGENT_PID",
                   "CREDENTIAL_HELPER_INSTALLER_DESTINATION"} :
          var \notin Unread /\ var # WorkdirEnv /\ var # WorkspaceEnv
  BY DEF WorkdirEnv, WorkspaceEnv, Unread, OriginalWorkingDirectoryEnv

\* The directories a process reads from its environment.
LEMMA SameDirectories ==
    ASSUME NEW p, NEW q,
           \A var \in {"TMPDIR", "HOME", "XDG_CACHE_HOME", "TEST_TMPDIR"} : SameVar(p, q, var)
    PROVE  tmpDir(p) = tmpDir(q) /\ cacheDir(p) = cacheDir(q) /\ homeDir(p) = homeDir(q)
  <1>1. \A var \in {"TMPDIR", "HOME", "XDG_CACHE_HOME", "TEST_TMPDIR"} :
            Getenv(p, var) = Getenv(q, var)
    BY DEF SameVar, Getenv
  <1>2. TempDir(p) = TempDir(q)
    <2>1. Getenv(p, "TMPDIR") # <<>> => "TMPDIR" \in DOMAIN p.env
      BY DEF Getenv
    <2> QED
      BY <1>1, <2>1 DEF TempDir, SameVar
  <1>3. tmpDir(p) = tmpDir(q)
    BY <1>2 DEF tmpDir, SameVar
  <1>4. UserHomeDir(p) = UserHomeDir(q)
    BY <1>1 DEF UserHomeDir
  <1>5. UserCacheDir(p) = UserCacheDir(q)
    <2>1. Getenv(p, "XDG_CACHE_HOME") # <<>> => "XDG_CACHE_HOME" \in DOMAIN p.env
      BY DEF Getenv
    <2> QED
      BY <1>1, <1>4, <2>1 DEF UserCacheDir, SameVar
  <1>6. cacheDir(p) = cacheDir(q)
    BY <1>3, <1>5 DEF cacheDir, SameVar
  <1>7. homeDir(p) = homeDir(q)
    BY <1>3, <1>4 DEF homeDir
  <1> QED
    BY <1>3, <1>6, <1>7

\* Processes that are alike mean the same paths.
LEMMA AlikePaths ==
    ASSUME NEW p, NEW q, Alike(p, q)
    PROVE  Rendezvous(p) = Rendezvous(q) /\ Destination(p) = Destination(q)
  <1>1. tmpDir(p) = tmpDir(q) /\ cacheDir(p) = cacheDir(q) /\ homeDir(p) = homeDir(q)
    BY SameDirectories, VariablesDiffer DEF Alike
  <1>2. Getenv(p, WorkdirEnv) = Getenv(q, WorkdirEnv) /\ Getenv(p, WorkspaceEnv) = Getenv(q, WorkspaceEnv)
    BY VariablesDiffer DEF Alike, SameVar, Getenv
  <1>3. \A x \in Placeholders : Prefix(p, x) = Prefix(q, x)
    BY <1>1, <1>2 DEF Placeholders, Prefix
  <1>4. ASSUME NEW input, NEW short
        PROVE  expandPath(p, input, short) = expandPath(q, input, short)
    <2>1. CASE input = <<>> \/ Head(input) \notin Placeholders
      BY <2>1 DEF expandPath, Placeholders
    <2>2. CASE input # <<>> /\ Head(input) \in Placeholders
      BY <1>3, <2>2 DEF expandPath
    <2> QED
      BY <2>1, <2>2
  <1>5. ASSUME NEW key, key \notin Unread, NEW fallback, NEW short
        PROVE  LookupPathEnv(p, key, fallback, short) = LookupPathEnv(q, key, fallback, short)
    <2>1. (IF key \in DOMAIN p.env THEN p.env[key] ELSE fallback)
            = (IF key \in DOMAIN q.env THEN q.env[key] ELSE fallback)
      BY <1>5 DEF Alike, SameVar
    <2> QED
      BY <1>4, <2>1 DEF LookupPathEnv
  <1>6. CredentialHelper(p) = CredentialHelper(q)
    BY <1>5, VariablesDiffer DEF CredentialHelper
  <1>7. AgentPaths(p) = AgentPaths(q)
    BY <1>5, VariablesDiffer DEF AgentPaths
  <1>8. Destination(p) = Destination(q)
    BY <1>5, <1>6, VariablesDiffer DEF Destination
  <1> QED
    BY <1>7, <1>8 DEF Rendezvous, Alike

\* Setenv.
LEMMA SetenvFacts ==
    ASSUME NEW p, IsProcess(p), NEW x, NEW value, NEW q, q = Setenv(p, x, value)
    PROVE  /\ IsProcess(q) /\ q.cwd = p.cwd
           /\ x \in DOMAIN q.env /\ q.env[x] = value
           /\ \A var : var # x => SameVar(p, q, var)
  <1>1. q = [env |-> With(p.env, x, value), cwd |-> p.cwd]
    BY DEF Setenv, IsProcess
  <1>2. PICK e : e = With(p.env, x, value)
    OBVIOUS
  <1>3. q.env = e /\ q.cwd = p.cwd /\ IsProcess(q)
    BY <1>1, <1>2 DEF IsProcess
  <1>4. /\ DOMAIN e = DOMAIN p.env \cup {x} /\ e[x] = value
        /\ \A y \in DOMAIN p.env : y # x => e[y] = p.env[y]
    BY <1>2 DEF With
  <1> QED
    BY <1>3, <1>4 DEF SameVar

\* SetupEnvironment: what it exports, and where the process is afterwards.
LEMMA SetupFacts ==
    ASSUME NEW p, IsProcess(p), NEW q, q = SetupEnvironment(p)
    PROVE  /\ IsProcess(q)
           /\ \A var : var \notin {OriginalWorkingDirectoryEnv, WorkspaceEnv, WorkdirEnv} =>
                 SameVar(p, q, var)
           /\ WorkspaceEnv \in DOMAIN q.env
           /\ q.env[WorkspaceEnv] =
                 IF WorkspaceEnv \in DOMAIN p.env THEN p.env[WorkspaceEnv]
                 ELSE IF "BUILD_WORKSPACE_DIRECTORY" \in DOMAIN p.env
                      THEN p.env["BUILD_WORKSPACE_DIRECTORY"] ELSE p.cwd
           /\ WorkdirEnv \in DOMAIN q.env
           /\ q.env[WorkdirEnv] =
                 IF WorkdirEnv \in DOMAIN p.env THEN p.env[WorkdirEnv]
                 ELSE cacheDir(p) \o <<"tweag-credential-helper">> \o workdirHash(q.env[WorkspaceEnv])
           /\ q.cwd = From(p.cwd, q.env[WorkdirEnv])
  <1>0. /\ OriginalWorkingDirectoryEnv # WorkspaceEnv /\ OriginalWorkingDirectoryEnv # WorkdirEnv
        /\ WorkdirEnv # WorkspaceEnv /\ "BUILD_WORKSPACE_DIRECTORY" # OriginalWorkingDirectoryEnv
        /\ "BUILD_WORKSPACE_DIRECTORY" # WorkdirEnv /\ "BUILD_WORKSPACE_DIRECTORY" # WorkspaceEnv
        /\ \A var \in {"TMPDIR", "HOME", "XDG_CACHE_HOME", "TEST_TMPDIR"} :
              var \notin {OriginalWorkingDirectoryEnv, WorkspaceEnv, WorkdirEnv}
    BY DEF WorkdirEnv, WorkspaceEnv, OriginalWorkingDirectoryEnv
  <1>1. PICK a : a = Setenv(p, OriginalWorkingDirectoryEnv, p.cwd)
    OBVIOUS
  <1>2. /\ IsProcess(a) /\ a.cwd = p.cwd
        /\ \A var : var # OriginalWorkingDirectoryEnv => SameVar(p, a, var)
    BY <1>1, SetenvFacts
  <1>3. PICK b : b = setupWorkspaceDirectory(a)
    OBVIOUS
  <1>4. /\ IsProcess(b) /\ b.cwd = p.cwd
        /\ \A var : var \notin {OriginalWorkingDirectoryEnv, WorkspaceEnv} => SameVar(p, b, var)
        /\ WorkspaceEnv \in DOMAIN b.env
        /\ b.env[WorkspaceEnv] =
              IF WorkspaceEnv \in DOMAIN p.env THEN p.env[WorkspaceEnv]
              ELSE IF "BUILD_WORKSPACE_DIRECTORY" \in DOMAIN p.env
                   THEN p.env["BUILD_WORKSPACE_DIRECTORY"] ELSE p.cwd
    <2>1. SameVar(p, a, WorkspaceEnv) /\ SameVar(p, a, "BUILD_WORKSPACE_DIRECTORY")
      BY <1>0, <1>2
    <2>2. CASE WorkspaceEnv \in DOMAIN a.env
      <3>1. b = a
        BY <1>3, <2>2 DEF setupWorkspaceDirectory
      <3> QED
        BY <1>2, <2>1, <2>2, <3>1 DEF SameVar
    <2>3. CASE WorkspaceEnv \notin DOMAIN a.env
      <3>1. PICK v : /\ b = Setenv(a, WorkspaceEnv, v)
                     /\ v = IF "BUILD_WORKSPACE_DIRECTORY" \in DOMAIN a.env
                            THEN a.env["BUILD_WORKSPACE_DIRECTORY"] ELSE a.cwd
        BY <1>3, <2>3 DEF setupWorkspaceDirectory
      <3>2. /\ IsProcess(b) /\ b.cwd = a.cwd
            /\ WorkspaceEnv \in DOMAIN b.env /\ b.env[WorkspaceEnv] = v
            /\ \A var : var # WorkspaceEnv => SameVar(a, b, var)
        BY <1>2, <3>1, SetenvFacts
      <3>3. \A var : var \notin {OriginalWorkingDirectoryEnv, WorkspaceEnv} => SameVar(p, b, var)
        BY <1>2, <3>2 DEF SameVar
      <3> QED
        BY <1>2, <2>1, <2>3, <3>1, <3>2, <3>3 DEF SameVar
    <2> QED
      BY <2>2, <2>3
  <1>5. PICK d : d = setupWorkdir(b)
    OBVIOUS
  <1>6. /\ IsProcess(d) /\ d.cwd = p.cwd
        /\ \A var : var \notin {OriginalWorkingDirectoryEnv, WorkspaceEnv, WorkdirEnv} => SameVar(p, d, var)
        /\ WorkspaceEnv \in DOMAIN d.env /\ d.env[WorkspaceEnv] = b.env[WorkspaceEnv]
        /\ WorkdirEnv \in DOMAIN d.env
        /\ d.env[WorkdirEnv] =
              IF WorkdirEnv \in DOMAIN p.env THEN p.env[WorkdirEnv]
              ELSE cacheDir(p) \o <<"tweag-credential-helper">> \o workdirHash(b.env[WorkspaceEnv])
    <2>1. SameVar(p, b, WorkdirEnv)
      BY <1>0, <1>4
    <2>2. CASE WorkdirEnv \in DOMAIN b.env
      <3>1. d = b
        BY <1>5, <2>2 DEF setupWorkdir
      <3> QED
        BY <1>4, <2>1, <2>2, <3>1 DEF SameVar
    <2>3. CASE WorkdirEnv \notin DOMAIN b.env
      <3>0. PICK v : v = cacheDir(b) \o <<"tweag-credential-helper">>
                           \o workdirHash(Getenv(b, WorkspaceEnv))
        OBVIOUS
      <3>1. d = Setenv(b, WorkdirEnv, v)
        BY <1>5, <2>3, <3>0 DEF setupWorkdir
      <3>2. cacheDir(b) = cacheDir(p)
        BY <1>0, <1>4, SameDirectories
      <3>3. Getenv(b, WorkspaceEnv) = b.env[WorkspaceEnv]
        BY <1>4 DEF Getenv
      <3>4. /\ IsProcess(d) /\ d.cwd = b.cwd
            /\ WorkdirEnv \in DOMAIN d.env /\ d.env[WorkdirEnv] = v
            /\ \A var : var # WorkdirEnv => SameVar(b, d, var)
        BY <1>4, <3>1, SetenvFacts
      <3>5. SameVar(b, d, WorkspaceEnv)
        BY <1>0, <3>4
      <3>6. \A var : var \notin {OriginalWorkingDirectoryEnv, WorkspaceEnv, WorkdirEnv} => SameVar(p, d, var)
        BY <1>4, <3>4 DEF SameVar
      <3>7. WorkspaceEnv \in DOMAIN d.env /\ d.env[WorkspaceEnv] = b.env[WorkspaceEnv]
        BY <1>4, <3>5 DEF SameVar
      <3>8. WorkdirEnv \notin DOMAIN p.env
        BY <2>1, <2>3 DEF SameVar
      <3> QED
        BY <1>4, <3>0, <3>2, <3>3, <3>4, <3>6, <3>7, <3>8
    <2> QED
      BY <2>2, <2>3
  <1>7. q = [d EXCEPT !.cwd = From(d.cwd, Getenv(d, WorkdirEnv))]
    BY <1>1, <1>3, <1>5 DEF SetupEnvironment
  <1>8. Getenv(d, WorkdirEnv) = d.env[WorkdirEnv]
    BY <1>6 DEF Getenv
  <1>9. IsProcess(q) /\ q.env = d.env /\ q.cwd = From(p.cwd, d.env[WorkdirEnv])
    BY <1>6, <1>7, <1>8 DEF IsProcess
  <1> QED
    BY <1>4, <1>6, <1>9 DEF SameVar

-----------------------------------------------------------------------------
(***************************************************************************)
(* Paths are sequences, and a process is at an absolute one.               *)
(***************************************************************************)
Parts == STRING \cup {"/", "tmp", "workspace", "runfiles", ".cache", "tweag-credential-helper",
                      "md5", "bin", "credential-helper", "run", "agent.sock", "agent.pid", "%workdir%"}
Paths == Seq(Parts)

PathEnv(p) ==
    /\ \A var \in DOMAIN p.env : var # OriginalWorkingDirectoryEnv => p.env[var] \in Paths
    /\ p.cwd \in Paths /\ IsAbs(p.cwd)

LEMMA PathFacts ==
    /\ <<>> \in Paths
    /\ \A a, b \in Paths : a \o b \in Paths /\ (IsAbs(a) => IsAbs(a \o b))
    /\ \A a \in Paths : a # <<>> => Tail(a) \in Paths
    /\ \A a \in Seq(STRING) : a \in Paths
  <1>1. ASSUME NEW a \in Paths, NEW b \in Paths, IsAbs(a)
        PROVE  IsAbs(a \o b)
    <2>1. a # <<>> /\ Head(a) = "/" /\ a \in Seq(Parts) /\ b \in Seq(Parts)
      BY <1>1 DEF IsAbs, Paths
    <2>2. Len(a) > 0 /\ Len(a) \in Nat /\ Len(b) \in Nat
      BY <2>1
    <2>3. a \o b # <<>> /\ Head(a \o b) = Head(a)
      BY <2>1, <2>2
    <2> QED
      BY <2>1, <2>3 DEF IsAbs
  <1>2. \A a, b \in Paths : a \o b \in Paths
    BY DEF Paths
  <1>3. \A a \in Paths : a # <<>> => Tail(a) \in Paths
    BY DEF Paths
  <1>4. \A a \in Seq(STRING) : a \in Paths
    <2>1. STRING \subseteq Parts
      BY DEF Parts
    <2> QED
      BY <2>1, SeqMonotonic DEF Paths
  <1>5. <<>> \in Paths
    BY DEF Paths
  <1> QED
    BY <1>1, <1>2, <1>3, <1>4, <1>5

\* The paths that the code names.
LEMMA PathConstants ==
    /\ <<"/", "tmp">> \in Paths /\ IsAbs(<<"/", "tmp">>)
    /\ <<"/", "workspace">> \in Paths /\ IsAbs(<<"/", "workspace">>)
    /\ <<"/", "runfiles">> \in Paths /\ IsAbs(<<"/", "runfiles">>)
    /\ <<".cache">> \in Paths /\ <<"tweag-credential-helper">> \in Paths /\ <<"md5">> \in Paths
    /\ <<"/">> \in Paths
    /\ <<"bin", "credential-helper">> \in Paths
    /\ <<"%workdir%", "bin", "credential-helper">> \in Paths
    /\ <<"%workdir%", "run", "agent.sock">> \in Paths
    /\ <<"%workdir%", "run", "agent.pid">> \in Paths
  <1>1. \A x \in {"/", "tmp", "workspace", "runfiles", ".cache", "tweag-credential-helper", "md5",
                  "bin", "credential-helper", "run", "agent.sock", "agent.pid", "%workdir%"} :
            x \in Parts
    BY DEF Parts
  <1>2. <<"/", "tmp">> \in Paths /\ <<"/", "workspace">> \in Paths /\ <<"/", "runfiles">> \in Paths
    BY <1>1 DEF Paths
  <1>3. <<".cache">> \in Paths /\ <<"tweag-credential-helper">> \in Paths /\ <<"md5">> \in Paths
        /\ <<"/">> \in Paths
    BY <1>1 DEF Paths
  <1>4. <<"bin", "credential-helper">> \in Paths
        /\ <<"%workdir%", "bin", "credential-helper">> \in Paths
    BY <1>1 DEF Paths
  <1>5. <<"%workdir%", "run", "agent.sock">> \in Paths /\ <<"%workdir%", "run", "agent.pid">> \in Paths
    BY <1>1 DEF Paths
  <1>6. IsAbs(<<"/", "tmp">>) /\ IsAbs(<<"/", "workspace">>) /\ IsAbs(<<"/", "runfiles">>)
    BY DEF IsAbs
  <1> QED
    BY <1>2, <1>3, <1>4, <1>5, <1>6

\* The kernel's view of a path is absolute.
LEMMA FromAbs ==
    ASSUME NEW cwd \in Paths, IsAbs(cwd), NEW path \in Paths
    PROVE  From(cwd, path) \in Paths /\ IsAbs(From(cwd, path))
  BY PathFacts DEF From

LEMMA DirectoryPaths ==
    ASSUME NEW p, PathEnv(p)
    PROVE  /\ tmpDir(p) \in Paths /\ cacheDir(p) \in Paths /\ homeDir(p) \in Paths
           /\ Getenv(p, WorkdirEnv) \in Paths /\ Getenv(p, WorkspaceEnv) \in Paths
  <1>1. \A var : var # OriginalWorkingDirectoryEnv => Getenv(p, var) \in Paths
    BY PathFacts DEF Getenv, PathEnv
  <1>2. \A var \in {"TMPDIR", "HOME", "XDG_CACHE_HOME", "TEST_TMPDIR", WorkdirEnv, WorkspaceEnv} :
            /\ Getenv(p, var) \in Paths
            /\ var \in DOMAIN p.env => p.env[var] \in Paths
            /\ Getenv(p, var) # <<>> => var \in DOMAIN p.env
    <2>1. \A var \in {"TMPDIR", "HOME", "XDG_CACHE_HOME", "TEST_TMPDIR", WorkdirEnv, WorkspaceEnv} :
              var # OriginalWorkingDirectoryEnv
      BY DEF OriginalWorkingDirectoryEnv, WorkdirEnv, WorkspaceEnv
    <2> QED
      BY <1>1, <2>1 DEF PathEnv, Getenv
  <1>3. TempDir(p) \in Paths
    BY <1>2, PathConstants DEF TempDir
  <1>4. tmpDir(p) \in Paths
    BY <1>2, <1>3 DEF tmpDir
  <1>5. UserHomeDir(p) \in Paths
    BY <1>2 DEF UserHomeDir
  <1>6. UserCacheDir(p) \in Paths
    BY <1>2, <1>5, PathConstants, PathFacts DEF UserCacheDir
  <1>7. cacheDir(p) \in Paths
    BY <1>2, <1>4, <1>6 DEF cacheDir
  <1>8. homeDir(p) \in Paths
    BY <1>4, <1>5 DEF homeDir
  <1> QED
    BY <1>2, <1>4, <1>7, <1>8

\* A process that is set up is at an absolute path again.
LEMMA SetupPaths ==
    ASSUME NEW p, IsProcess(p), PathEnv(p)
    PROVE  IsProcess(SetupEnvironment(p)) /\ PathEnv(SetupEnvironment(p))
  <1>1. PICK q : q = SetupEnvironment(p)
    OBVIOUS
  <1>2. "BUILD_WORKSPACE_DIRECTORY" # OriginalWorkingDirectoryEnv
        /\ WorkspaceEnv # OriginalWorkingDirectoryEnv /\ WorkdirEnv # OriginalWorkingDirectoryEnv
    BY DEF OriginalWorkingDirectoryEnv, WorkspaceEnv, WorkdirEnv
  <1>3. q.env[WorkspaceEnv] \in Paths
    BY <1>1, <1>2, SetupFacts DEF PathEnv
  <1>4. q.env[WorkdirEnv] \in Paths
    <2>1. cacheDir(p) \o <<"tweag-credential-helper">> \o workdirHash(q.env[WorkspaceEnv]) \in Paths
      <3>1. workdirHash(q.env[WorkspaceEnv]) \in Paths
        BY <1>3, PathFacts, PathConstants DEF workdirHash
      <3>2. cacheDir(p) \o <<"tweag-credential-helper">> \in Paths
        BY DirectoryPaths, PathFacts, PathConstants
      <3> QED
        BY <3>1, <3>2, PathFacts
    <2> QED
      BY <1>1, <1>2, <2>1, SetupFacts DEF PathEnv
  <1>5. q.cwd \in Paths /\ IsAbs(q.cwd)
    BY <1>1, <1>4, FromAbs, SetupFacts DEF PathEnv
  <1>6. \A var : var \notin {OriginalWorkingDirectoryEnv, WorkspaceEnv, WorkdirEnv} => SameVar(p, q, var)
    BY <1>1, SetupFacts
  <1>7. ASSUME NEW var \in DOMAIN q.env, var # OriginalWorkingDirectoryEnv
        PROVE  q.env[var] \in Paths
    <2>1. CASE var \in {WorkspaceEnv, WorkdirEnv}
      BY <1>3, <1>4, <2>1
    <2>2. CASE var \notin {WorkspaceEnv, WorkdirEnv}
      BY <1>6, <1>7, <2>2 DEF SameVar, PathEnv
    <2> QED
      BY <2>1, <2>2
  <1> QED
    BY <1>1, <1>5, <1>7, SetupFacts DEF PathEnv

\* The paths that a process means are absolute for the kernel.
LEMMA MeantPaths ==
    ASSUME NEW p, PathEnv(p)
    PROVE  /\ IsAbs(Rendezvous(p).socket) /\ IsAbs(Rendezvous(p).pid)
           /\ IsAbs(From(p.cwd, Destination(p)))
  <1>1. \A x \in Placeholders : Prefix(p, x) \in Paths
    BY DirectoryPaths DEF Placeholders, Prefix
  <1>2. \A a, b \in Paths : Join(a, b) \in Paths
    BY PathFacts, PathConstants DEF Join
  <1>3. ASSUME NEW input \in Paths, NEW short
        PROVE  expandPath(p, input, short) \in Paths
    <2>1. CASE input = <<>> \/ Head(input) \notin Placeholders
      BY <2>1 DEF expandPath
    <2>2. CASE input # <<>> /\ Head(input) \in Placeholders
      <3>1. Tail(input) \in Paths
        BY <2>2, PathFacts
      <3>2. Join(Prefix(p, Head(input)), Tail(input)) \in Paths
        BY <1>1, <1>2, <2>2, <3>1
      <3> QED
        BY <2>2, <3>1, <3>2 DEF expandPath
    <2> QED
      BY <2>1, <2>2
  <1>4. ASSUME NEW key, key # OriginalWorkingDirectoryEnv, NEW fallback \in Paths, NEW short
        PROVE  LookupPathEnv(p, key, fallback, short) \in Paths
    BY <1>3, <1>4 DEF LookupPathEnv, PathEnv
  <1>5. CredentialHelper(p) \in Paths
    BY <1>4, PathConstants DEF CredentialHelper, OriginalWorkingDirectoryEnv
  <1>6. Destination(p) \in Paths
    BY <1>4, <1>5 DEF Destination, OriginalWorkingDirectoryEnv
  <1>7. AgentPaths(p).socket \in Paths /\ AgentPaths(p).pid \in Paths
    BY <1>4, PathConstants DEF AgentPaths, OriginalWorkingDirectoryEnv
  <1> QED
    BY <1>6, <1>7, FromAbs DEF PathEnv, Rendezvous

-----------------------------------------------------------------------------
(***************************************************************************)
(* What the processes of a setup start from.                               *)
(***************************************************************************)
User(s) == Process(s.env, Workspace)

Begun(c, s) == IF c \in Getters THEN Wrapper(Started(c, s)) ELSE Started(c, s)

LEMMA UserFacts ==
    ASSUME NEW s \in Setups
    PROVE  /\ IsProcess(User(s)) /\ PathEnv(User(s))
           /\ User(s).env = s.env /\ User(s).cwd = Workspace
           /\ \A c \in Getters : Started(c, s) = User(s)
  <1>1. /\ User(s) = [env |-> s.env, cwd |-> Workspace]
        /\ User(s).env = s.env /\ User(s).cwd = Workspace
    BY DEF User, Process
  <1>2. \A var \in DOMAIN s.env : s.env[var] \in Paths
    BY InstallerAssumption, PathFacts
  <1>3. Workspace \in Paths /\ IsAbs(Workspace)
    BY PathConstants DEF Workspace
  <1>4. IsProcess(User(s))
    BY <1>1 DEF IsProcess
  <1>5. PathEnv(User(s))
    BY <1>1, <1>2, <1>3 DEF PathEnv
  <1> QED
    BY <1>1, <1>4, <1>5 DEF Started, User

\* An installer and `bazel run`.
LEMMA BaseFacts ==
    ASSUME NEW s \in Setups
    PROVE  /\ IsProcess(Base(s)) /\ PathEnv(Base(s))
           /\ "BUILD_WORKSPACE_DIRECTORY" \in DOMAIN Base(s).env
           /\ Base(s).env["BUILD_WORKSPACE_DIRECTORY"] = Workspace
           /\ \A var : var # "BUILD_WORKSPACE_DIRECTORY" => SameVar(User(s), Base(s), var)
           /\ \A c : c \notin Getters => Started(c, s) = Base(s)
  <1>1. PICK e : e = With(s.env, "BUILD_WORKSPACE_DIRECTORY", Workspace)
    OBVIOUS
  <1>2. PICK p : p = Base(s)
    OBVIOUS
  <1>3. p = [env |-> e, cwd |-> <<"/", "runfiles">>] /\ p.env = e /\ p.cwd = <<"/", "runfiles">>
    BY <1>1, <1>2 DEF Base, Process
  <1>4. /\ DOMAIN e = DOMAIN s.env \cup {"BUILD_WORKSPACE_DIRECTORY"}
        /\ e["BUILD_WORKSPACE_DIRECTORY"] = Workspace
        /\ \A y \in DOMAIN s.env : y # "BUILD_WORKSPACE_DIRECTORY" => e[y] = s.env[y]
    BY <1>1 DEF With
  <1>5. IsProcess(p)
    BY <1>3 DEF IsProcess
  <1>6. PathEnv(p)
    <2>1. \A var \in DOMAIN s.env : s.env[var] \in Paths
      BY InstallerAssumption, PathFacts
    <2>2. Workspace \in Paths
      BY PathConstants DEF Workspace
    <2>3. \A var \in DOMAIN e : e[var] \in Paths
      BY <1>4, <2>1, <2>2
    <2> QED
      BY <1>3, <2>3, PathConstants DEF PathEnv
  <1>7. \A var : var # "BUILD_WORKSPACE_DIRECTORY" => SameVar(User(s), p, var)
    BY <1>3, <1>4, UserFacts DEF SameVar
  <1>8. \A c : c \notin Getters => Started(c, s) = p
    BY <1>2 DEF Started, Base
  <1> QED
    BY <1>2, <1>3, <1>4, <1>5, <1>6, <1>7, <1>8

\* A client and the wrapper.
LEMMA WrapperFacts ==
    ASSUME NEW s \in Setups, NEW p, p = Wrapper(User(s))
    PROVE  /\ IsProcess(p) /\ PathEnv(p) /\ p.cwd = Workspace
           /\ \A var : var # WorkspaceEnv => SameVar(User(s), p, var)
           /\ WorkspaceEnv \in DOMAIN p.env
           /\ p.env[WorkspaceEnv] = IF Getenv(User(s), WorkspaceEnv) # <<>>
                                    THEN s.env[WorkspaceEnv] ELSE Workspace
  <1>1. CASE Getenv(User(s), WorkspaceEnv) # <<>>
    <2>1. p = User(s)
      BY <1>1 DEF Wrapper
    <2>2. WorkspaceEnv \in DOMAIN s.env
      BY <1>1, UserFacts DEF Getenv
    <2> QED
      BY <1>1, <2>1, <2>2, UserFacts DEF SameVar
  <1>2. CASE Getenv(User(s), WorkspaceEnv) = <<>>
    <2>1. p = Setenv(User(s), WorkspaceEnv, Workspace)
      BY <1>2, UserFacts DEF Wrapper
    <2>2. /\ IsProcess(p) /\ p.cwd = Workspace
          /\ WorkspaceEnv \in DOMAIN p.env /\ p.env[WorkspaceEnv] = Workspace
          /\ \A var : var # WorkspaceEnv => SameVar(User(s), p, var)
      BY <2>1, UserFacts, SetenvFacts
    <2>3. Workspace \in Paths /\ IsAbs(Workspace)
      BY PathConstants DEF Workspace
    <2>4. \A var \in DOMAIN p.env : var # OriginalWorkingDirectoryEnv => p.env[var] \in Paths
      BY <2>2, <2>3, UserFacts DEF SameVar, PathEnv
    <2> QED
      BY <1>2, <2>2, <2>3, <2>4 DEF PathEnv
  <1> QED
    BY <1>1, <1>2

LEMMA BegunFacts ==
    ASSUME NEW s \in Setups, NEW c
    PROVE  /\ IsProcess(Begun(c, s)) /\ PathEnv(Begun(c, s))
           /\ Ready(c, s) = SetupEnvironment(Begun(c, s))
           /\ IsProcess(Ready(c, s)) /\ PathEnv(Ready(c, s))
           /\ c \notin Getters => Ready(c, s) = Here(s)
  <1>1. IsProcess(Begun(c, s)) /\ PathEnv(Begun(c, s))
    BY UserFacts, BaseFacts, WrapperFacts DEF Begun
  <1>2. Ready(c, s) = SetupEnvironment(Begun(c, s))
    BY DEF Ready, Begun
  <1>3. IsProcess(Ready(c, s)) /\ PathEnv(Ready(c, s))
    BY <1>1, <1>2, SetupPaths
  <1>4. c \notin Getters => Ready(c, s) = Here(s)
    BY BaseFacts DEF Ready, Here
  <1> QED
    BY <1>1, <1>2, <1>3, <1>4

-----------------------------------------------------------------------------
(***************************************************************************)
(* Where they get to, if the directories of the environment are absolute.  *)
(***************************************************************************)
Absolute(s) ==
    /\ \A var \in Directories \cap DOMAIN s.env : IsAbs(s.env[var])
    /\ WorkspaceEnv \in DOMAIN s.env => s.env[WorkspaceEnv] # <<>>

Space(s) == IF WorkspaceEnv \in DOMAIN s.env THEN s.env[WorkspaceEnv] ELSE Workspace

Dir(s) ==
    IF WorkdirEnv \in DOMAIN s.env THEN s.env[WorkdirEnv]
    ELSE cacheDir(User(s)) \o <<"tweag-credential-helper">> \o workdirHash(Space(s))

Reached(p, s) ==
    /\ IsProcess(p)
    /\ p.cwd = Dir(s)
    /\ WorkspaceEnv \in DOMAIN p.env /\ p.env[WorkspaceEnv] = Space(s)
    /\ WorkdirEnv \in DOMAIN p.env /\ p.env[WorkdirEnv] = Dir(s)
    /\ \A var : var \notin Unread \cup {WorkspaceEnv, WorkdirEnv} => SameVar(User(s), p, var)

\* The working directory of a setup is absolute.
LEMMA DirAbs ==
    ASSUME NEW s \in Setups, Absolute(s)
    PROVE  Dir(s) \in Paths /\ IsAbs(Dir(s))
  <1>1. PICK u : u = User(s)
    OBVIOUS
  <1>2. PathEnv(u) /\ u.env = s.env
    BY <1>1, UserFacts
  <1>3. \A var \in Directories : var \in DOMAIN u.env => u.env[var] \in Paths /\ IsAbs(u.env[var])
    <2>1. \A var \in Directories : var # OriginalWorkingDirectoryEnv
      BY DEF Directories, OriginalWorkingDirectoryEnv, WorkdirEnv
    <2> QED
      BY <1>2, <2>1 DEF Absolute, PathEnv
  <1>4. \A var \in {"TMPDIR", "HOME", "XDG_CACHE_HOME", "TEST_TMPDIR"} :
            /\ Getenv(u, var) # <<>> => var \in DOMAIN u.env /\ Getenv(u, var) = u.env[var]
            /\ var \in DOMAIN u.env => u.env[var] \in Paths /\ IsAbs(u.env[var])
    BY <1>3 DEF Getenv, Directories
  <1>5. TempDir(u) \in Paths /\ IsAbs(TempDir(u))
    BY <1>4, PathConstants DEF TempDir
  <1>6. tmpDir(u) \in Paths /\ IsAbs(tmpDir(u))
    BY <1>4, <1>5 DEF tmpDir
  <1>7. UserCacheDir(u) # <<>> => UserCacheDir(u) \in Paths /\ IsAbs(UserCacheDir(u))
    BY <1>4, PathConstants, PathFacts DEF UserCacheDir, UserHomeDir
  <1>8. cacheDir(u) \in Paths /\ IsAbs(cacheDir(u))
    BY <1>4, <1>6, <1>7 DEF cacheDir
  <1>9. Space(s) \in Paths
    BY <1>2, PathConstants DEF Space, Workspace, PathEnv, WorkspaceEnv, OriginalWorkingDirectoryEnv
  <1>10. workdirHash(Space(s)) \in Paths
    BY <1>9, PathConstants, PathFacts DEF workdirHash
  <1>11. cacheDir(u) \o <<"tweag-credential-helper">> \in Paths
         /\ IsAbs(cacheDir(u) \o <<"tweag-credential-helper">>)
    BY <1>8, PathConstants, PathFacts
  <1>12. /\ cacheDir(u) \o <<"tweag-credential-helper">> \o workdirHash(Space(s)) \in Paths
         /\ IsAbs(cacheDir(u) \o <<"tweag-credential-helper">> \o workdirHash(Space(s)))
    BY <1>10, <1>11, PathFacts
  <1> QED
    BY <1>1, <1>2, <1>3, <1>12 DEF Dir, Directories

\* Every process gets there, a second SetupEnvironment included.
LEMMA ReadyReached ==
    ASSUME NEW s \in Setups, Absolute(s), NEW c
    PROVE  Reached(Ready(c, s), s)
  <1>1. PICK u : u = User(s)
    OBVIOUS
  <1>2. PICK b : b = Begun(c, s)
    OBVIOUS
  <1>3. PICK q : q = Ready(c, s)
    OBVIOUS
  <1>4. u.env = s.env /\ u.cwd = Workspace
    BY <1>1, UserFacts
  <1>5. \A var : var \notin Unread \cup {WorkspaceEnv} => SameVar(u, b, var)
    BY <1>1, <1>2, UserFacts, BaseFacts, WrapperFacts DEF Begun, Unread
  <1>6. Space(s) = IF WorkspaceEnv \in DOMAIN b.env THEN b.env[WorkspaceEnv]
                   ELSE IF "BUILD_WORKSPACE_DIRECTORY" \in DOMAIN b.env
                        THEN b.env["BUILD_WORKSPACE_DIRECTORY"] ELSE b.cwd
    <2>1. CASE c \in Getters
      <3>1. b = Wrapper(u)
        BY <1>1, <1>2, <2>1, UserFacts DEF Begun
      <3>2. Getenv(u, WorkspaceEnv) # <<>> <=> WorkspaceEnv \in DOMAIN s.env
        BY <1>4 DEF Getenv, Absolute
      <3>3. /\ WorkspaceEnv \in DOMAIN b.env
            /\ b.env[WorkspaceEnv] = IF Getenv(u, WorkspaceEnv) # <<>>
                                     THEN s.env[WorkspaceEnv] ELSE Workspace
        BY <1>1, <3>1, WrapperFacts
      <3> QED
        BY <3>2, <3>3 DEF Space
    <2>2. CASE c \notin Getters
      <3>1. b = Base(s)
        BY <1>2, <2>2, BaseFacts DEF Begun
      <3>2. SameVar(u, b, WorkspaceEnv)
        BY <1>1, <3>1, BaseFacts DEF WorkspaceEnv
      <3>3. "BUILD_WORKSPACE_DIRECTORY" \in DOMAIN b.env
            /\ b.env["BUILD_WORKSPACE_DIRECTORY"] = Workspace
        BY <3>1, BaseFacts
      <3> QED
        BY <1>4, <3>2, <3>3 DEF Space, SameVar
    <2> QED
      BY <2>1, <2>2
  <1>7. /\ IsProcess(q)
        /\ \A var : var \notin {OriginalWorkingDirectoryEnv, WorkspaceEnv, WorkdirEnv} =>
              SameVar(b, q, var)
        /\ WorkspaceEnv \in DOMAIN q.env /\ q.env[WorkspaceEnv] = Space(s)
        /\ WorkdirEnv \in DOMAIN q.env
        /\ q.env[WorkdirEnv] =
              IF WorkdirEnv \in DOMAIN b.env THEN b.env[WorkdirEnv]
              ELSE cacheDir(b) \o <<"tweag-credential-helper">> \o workdirHash(Space(s))
        /\ q.cwd = From(b.cwd, q.env[WorkdirEnv])
    <2>1. q = SetupEnvironment(b) /\ IsProcess(b)
      BY <1>2, <1>3, BegunFacts
    <2> QED
      BY <1>6, <2>1, SetupFacts
  <1>8. cacheDir(b) = cacheDir(u)
    BY <1>5, VariablesDiffer, SameDirectories DEF SameVar
  <1>9. SameVar(u, b, WorkdirEnv)
    BY <1>5, VariablesDiffer
  <1>10. q.env[WorkdirEnv] = Dir(s)
    BY <1>1, <1>4, <1>7, <1>8, <1>9 DEF Dir, SameVar
  <1>11. q.cwd = Dir(s)
    BY <1>7, <1>10, DirAbs DEF From
  <1>12. \A var : var \notin Unread \cup {WorkspaceEnv, WorkdirEnv} => SameVar(u, q, var)
    BY <1>5, <1>7 DEF Unread, SameVar
  <1> QED
    BY <1>1, <1>3, <1>7, <1>10, <1>11, <1>12 DEF Reached

LEMMA SetupReached ==
    ASSUME NEW s \in Setups, Absolute(s), NEW p, Reached(p, s)
    PROVE  Reached(SetupEnvironment(p), s)
  <1>1. PICK q : q = SetupEnvironment(p)
    OBVIOUS
  <1>2. /\ IsProcess(q)
        /\ \A var : var \notin {OriginalWorkingDirectoryEnv, WorkspaceEnv, WorkdirEnv} =>
              SameVar(p, q, var)
        /\ WorkspaceEnv \in DOMAIN q.env /\ q.env[WorkspaceEnv] = Space(s)
        /\ WorkdirEnv \in DOMAIN q.env /\ q.env[WorkdirEnv] = Dir(s)
        /\ q.cwd = From(p.cwd, q.env[WorkdirEnv])
    BY <1>1, SetupFacts DEF Reached
  <1>3. q.cwd = Dir(s)
    BY <1>2, DirAbs DEF From
  <1>4. \A var : var \notin Unread \cup {WorkspaceEnv, WorkdirEnv} => SameVar(User(s), q, var)
    BY <1>2 DEF Reached, Unread, SameVar
  <1> QED
    BY <1>1, <1>2, <1>3, <1>4 DEF Reached

LEMMA ReachedAlike ==
    ASSUME NEW s, NEW p, NEW q, Reached(p, s), Reached(q, s)
    PROVE  Alike(p, q)
  BY DEF Reached, Alike, SameVar

\* All processes of a setup meet at one place.
LEMMA OnePlace ==
    ASSUME NEW s \in Setups, Absolute(s), NEW c
    PROVE  /\ Rendezvous(Ready(c, s)) = Rendezvous(Here(s))
           /\ Rendezvous(SetupEnvironment(Ready(c, s))) = Rendezvous(Here(s))
  <1>1. PICK p : p = Ready(c, s)
    OBVIOUS
  <1>2. Reached(p, s)
    BY <1>1, ReadyReached
  <1>3. Reached(SetupEnvironment(p), s)
    BY <1>2, SetupReached
  <1>4. Reached(Here(s), s)
    <2>1. PICK d : d = {g \in Getters : g \notin g}
      OBVIOUS
    <2>2. d \notin Getters
      BY <2>1
    <2>3. Ready(d, s) = Here(s)
      BY <2>2, BegunFacts
    <2> QED
      BY <2>3, ReadyReached
  <1> QED
    BY <1>1, <1>2, <1>3, <1>4, ReachedAlike, AlikePaths

-----------------------------------------------------------------------------
(***************************************************************************)
(* The wrapper's path and the installer's.                                 *)
(***************************************************************************)
Plain(s) ==
    /\ Absolute(s)
    /\ "HOME" \in DOMAIN s.env
    /\ DOMAIN s.env \cap {"XDG_CACHE_HOME", "CREDENTIAL_HELPER_INSTALLER_DESTINATION"} = {}
    /\ "CREDENTIAL_HELPER_BIN" \in DOMAIN s.env => IsAbs(s.env["CREDENTIAL_HELPER_BIN"])

\* No placeholder starts an absolute path.
LEMMA AbsoluteStays ==
    ASSUME NEW p, NEW path, IsAbs(path), NEW short
    PROVE  /\ path # <<>>
           /\ expandPath(p, path, short) = path
           /\ \A cwd : From(cwd, path) = path
  BY DEF IsAbs, expandPath, Placeholders, From

\* The installer's destination: the helper's path in the working directory.
LEMMA PlainDestination ==
    ASSUME NEW s \in Setups, Plain(s), NEW p, Reached(p, s)
    PROVE  From(p.cwd, Destination(p)) =
               IF "CREDENTIAL_HELPER_BIN" \in DOMAIN s.env THEN s.env["CREDENTIAL_HELPER_BIN"]
               ELSE Dir(s) \o <<"bin", "credential-helper">>
  <1>1. PICK path : path = IF "CREDENTIAL_HELPER_BIN" \in DOMAIN s.env
                           THEN s.env["CREDENTIAL_HELPER_BIN"]
                           ELSE Dir(s) \o <<"bin", "credential-helper">>
    OBVIOUS
  <1>2. Dir(s) \in Paths /\ IsAbs(Dir(s))
    BY DirAbs DEF Plain
  <1>3. IsAbs(path)
    BY <1>1, <1>2, PathFacts, PathConstants DEF Plain
  <1>4. SameVar(User(s), p, "CREDENTIAL_HELPER_BIN")
        /\ SameVar(User(s), p, "CREDENTIAL_HELPER_INSTALLER_DESTINATION")
    BY VariablesDiffer DEF Reached
  <1>5. User(s).env = s.env
    BY UserFacts
  <1>6. "CREDENTIAL_HELPER_INSTALLER_DESTINATION" \notin DOMAIN p.env
    BY <1>4, <1>5 DEF SameVar, Plain
  <1>7. CredentialHelper(p) = path
    <2>1. CASE "CREDENTIAL_HELPER_BIN" \in DOMAIN s.env
      <3>1. "CREDENTIAL_HELPER_BIN" \in DOMAIN p.env /\ p.env["CREDENTIAL_HELPER_BIN"] = path
        BY <1>1, <1>4, <1>5, <2>1 DEF SameVar
      <3> QED
        BY <1>3, <3>1, AbsoluteStays DEF CredentialHelper, LookupPathEnv
    <2>2. CASE "CREDENTIAL_HELPER_BIN" \notin DOMAIN s.env
      <3>1. "CREDENTIAL_HELPER_BIN" \notin DOMAIN p.env
        BY <1>4, <1>5, <2>2 DEF SameVar
      <3>2. PICK input : input = <<"%workdir%", "bin", "credential-helper">>
        OBVIOUS
      <3>3. CredentialHelper(p) = expandPath(p, input, FALSE)
        BY <3>1, <3>2 DEF CredentialHelper, LookupPathEnv
      <3>4. input # <<>> /\ Head(input) = "%workdir%" /\ Tail(input) = <<"bin", "credential-helper">>
        BY <3>2
      <3>5. expandPath(p, input, FALSE) = Join(Prefix(p, "%workdir%"), <<"bin", "credential-helper">>)
        BY <3>4 DEF expandPath, Placeholders
      <3>6. Prefix(p, "%workdir%") = Dir(s)
        BY DEF Prefix, Getenv, Reached
      <3>7. Join(Dir(s), <<"bin", "credential-helper">>) = path
        BY <1>1, <1>2, <2>2 DEF Join, IsAbs
      <3> QED
        BY <3>3, <3>5, <3>6, <3>7
    <2> QED
      BY <2>1, <2>2
  <1>8. Destination(p) = path
    BY <1>3, <1>6, <1>7, AbsoluteStays DEF Destination, LookupPathEnv
  <1> QED
    BY <1>1, <1>3, <1>8, AbsoluteStays

\* Where the wrapper looks.
LEMMA PlainHelperBin ==
    ASSUME NEW s \in Setups, Plain(s)
    PROVE  From(Workspace, helper_bin(User(s))) =
               IF "CREDENTIAL_HELPER_BIN" \in DOMAIN s.env THEN s.env["CREDENTIAL_HELPER_BIN"]
               ELSE Dir(s) \o <<"bin", "credential-helper">>
  <1>1. PICK u : u = User(s)
    OBVIOUS
  <1>2. u.env = s.env /\ u.cwd = Workspace
    BY <1>1, UserFacts
  <1>3. \A var \in {"TEST_TMPDIR", "HOME", WorkdirEnv, "CREDENTIAL_HELPER_BIN"} :
            /\ var \in DOMAIN s.env => IsAbs(s.env[var])
            /\ var \in DOMAIN s.env <=> Getenv(u, var) # <<>>
            /\ var \in DOMAIN s.env => Getenv(u, var) = s.env[var]
    BY <1>2 DEF Plain, Absolute, Directories, Getenv, IsAbs
  <1>4. Getenv(Wrapper(u), WorkspaceEnv) = Space(s)
    <2>1. Getenv(u, WorkspaceEnv) # <<>> <=> WorkspaceEnv \in DOMAIN s.env
      BY <1>2 DEF Getenv, Plain, Absolute
    <2>2. PICK w : w = Wrapper(u)
      OBVIOUS
    <2>3. /\ WorkspaceEnv \in DOMAIN w.env
          /\ w.env[WorkspaceEnv] = IF Getenv(u, WorkspaceEnv) # <<>>
                                   THEN s.env[WorkspaceEnv] ELSE Workspace
      BY <1>1, <2>2, WrapperFacts
    <2> QED
      BY <2>1, <2>2, <2>3 DEF Space, Getenv
  <1>5. PICK cache : cache = IF Getenv(u, "TEST_TMPDIR") # <<>> THEN u.env["TEST_TMPDIR"]
                             ELSE Join(Getenv(u, "HOME"), <<".cache">>)
    OBVIOUS
  <1>6. cache = cacheDir(u)
    <2>1. CASE "TEST_TMPDIR" \in DOMAIN s.env
      BY <1>2, <1>3, <1>5, <2>1 DEF cacheDir
    <2>2. CASE "TEST_TMPDIR" \notin DOMAIN s.env
      <3>1. "HOME" \in DOMAIN s.env
        BY DEF Plain
      <3>2. Getenv(u, "HOME") # <<>>
        BY <1>3, <3>1
      <3>3. Getenv(u, "XDG_CACHE_HOME") = <<>>
        BY <1>2 DEF Getenv, Plain
      <3>4. UserCacheDir(u) = Getenv(u, "HOME") \o <<".cache">>
        BY <3>2, <3>3 DEF UserCacheDir, UserHomeDir
      <3>5. PICK h : h = Getenv(u, "HOME")
        OBVIOUS
      <3>6. h \in Paths /\ IsAbs(h)
        BY <1>1, <1>2, <1>3, <3>1, <3>5, UserFacts DEF PathEnv, OriginalWorkingDirectoryEnv
      <3>7. IsAbs(h \o <<".cache">>)
        BY <3>6, PathFacts, PathConstants
      <3>8. UserCacheDir(u) # <<>>
        BY <3>4, <3>5, <3>7 DEF IsAbs
      <3>9. cacheDir(u) = UserCacheDir(u)
        BY <1>2, <2>2, <3>8 DEF cacheDir
      <3>10. cache = Join(h, <<".cache">>)
        BY <1>3, <1>5, <2>2, <3>5
      <3> QED
        BY <3>2, <3>4, <3>5, <3>9, <3>10 DEF Join
    <2> QED
      BY <2>1, <2>2
  <1>7. PICK workdir : workdir = IF Getenv(u, WorkdirEnv) # <<>> THEN u.env[WorkdirEnv]
                                 ELSE cache \o <<"tweag-credential-helper">>
                                            \o workdirHash(Getenv(Wrapper(u), WorkspaceEnv))
    OBVIOUS
  <1>8. workdir = Dir(s)
    BY <1>1, <1>2, <1>3, <1>4, <1>6, <1>7 DEF Dir
  <1>9. helper_bin(u) = IF Getenv(u, "CREDENTIAL_HELPER_BIN") # <<>>
                        THEN u.env["CREDENTIAL_HELPER_BIN"]
                        ELSE workdir \o <<"bin", "credential-helper">>
    BY <1>5, <1>7 DEF helper_bin
  <1>10. IsAbs(Dir(s) \o <<"bin", "credential-helper">>)
    BY DirAbs, PathFacts, PathConstants DEF Plain
  <1>11. PICK path : path = IF "CREDENTIAL_HELPER_BIN" \in DOMAIN s.env
                            THEN s.env["CREDENTIAL_HELPER_BIN"]
                            ELSE Dir(s) \o <<"bin", "credential-helper">>
    OBVIOUS
  <1>12. helper_bin(u) = path /\ IsAbs(path)
    BY <1>2, <1>3, <1>8, <1>9, <1>10, <1>11
  <1> QED
    BY <1>1, <1>11, <1>12, AbsoluteStays

-----------------------------------------------------------------------------
(***************************************************************************)
(* The initial states.                                                     *)
(***************************************************************************)
LEMMA SourceFacts ==
    /\ \A i, j : Source(i) = Source(j) => i = j
    /\ \A i : IsAbs(Source(i))
  <1>1. ASSUME NEW i, NEW j, Source(i) = Source(j)
        PROVE  i = j
    <2>1. Source(i)[3] = i /\ Source(j)[3] = j
      BY DEF Source
    <2> QED
      BY <1>1, <2>1
  <1>2. \A i : IsAbs(Source(i))
    BY DEF Source, IsAbs
  <1> QED
    BY <1>1, <1>2

LEMMA InodeFacts ==
    ASSUME NEW content \in Installers \cup {None}, NEW executable \in BOOLEAN, NEW writable \in BOOLEAN,
           NEW r, r = Inode(content, executable, writable)
    PROVE  r \in Inodes /\ r.content = content /\ r.writable = writable
  BY DEF Inode, Inodes

\* SetToSeq enumerates the installers.
LEMMA BuiltFacts ==
    ASSUME NEW built, built = SetToSeq(Installers)
    PROVE  /\ built \in Seq(Installers)
           /\ \A i \in Installers : \E n \in DOMAIN built : built[n] = i
  <1>1. PICK k : k = Cardinality(Installers)
    OBVIOUS
  <1>2. IsFiniteSet(Installers)
    BY InstallerAssumption
  <1>3. k \in Nat /\ ExistsBijection(1..k, Installers)
    BY <1>1, <1>2, FS_CardinalityType
  <1>4. \E f \in [1..k -> Installers] : IsInjective(f)
    BY <1>3 DEF ExistsBijection, Bijection, Injection
  <1>5. built \in [1..k -> Installers] /\ IsInjective(built)
    BY <1>1, <1>4 DEF SetToSeq
  <1>6. built \in Injection(1..k, Installers)
    BY <1>5 DEF Injection
  <1>7. Cardinality(1..k) = k
    <2>1. Cardinality(1..k) = IF 1 > k THEN 0 ELSE k - 1 + 1
      BY <1>3, FS_Interval
    <2> QED
      BY <1>3, <2>1
  <1>8. built \in Surjection(1..k, Installers)
    BY <1>1, <1>2, <1>6, <1>7, FS_Injection
  <1>9. \A i \in Installers : \E n \in 1..k : built[n] = i
    BY <1>8 DEF Surjection
  <1>10. DOMAIN built = 1..k
    BY <1>5
  <1>11. built \in Seq(Installers)
    BY <1>3, <1>5, SeqDef
  <1> QED
    BY <1>9, <1>10, <1>11

LEMMA InitInv ==
    ASSUME Init
    PROVE  InstallerInv
  <1>1. PICK built : built = SetToSeq(Installers)
    OBVIOUS
  <1>2. /\ built \in Seq(Installers)
        /\ \A i \in Installers : \E n \in DOMAIN built : built[n] = i
    BY <1>1, BuiltFacts
  <1>3. setup \in Setups /\ setup.writable \in BOOLEAN
    BY InstallerAssumption DEF Init
  <1>4. /\ files = [path \in {Source(i) : i \in Installers} |->
                        CHOOSE n \in DOMAIN built : Source(built[n]) = path]
        /\ inodes = [n \in DOMAIN built |-> Inode(built[n], TRUE, setup.writable)]
    BY <1>1 DEF Init
  <1>5. /\ DOMAIN files = {Source(i) : i \in Installers}
        /\ files = [path \in DOMAIN files |-> files[path]]
    BY <1>4
  <1>6. ASSUME NEW i \in Installers
        PROVE  files[Source(i)] \in DOMAIN built /\ built[files[Source(i)]] = i
    <2>1. \E n \in DOMAIN built : Source(built[n]) = Source(i)
      BY <1>2
    <2>2. files[Source(i)] = CHOOSE n \in DOMAIN built : Source(built[n]) = Source(i)
      BY <1>4
    <2>3. files[Source(i)] \in DOMAIN built /\ Source(built[files[Source(i)]]) = Source(i)
      BY <2>1, <2>2
    <2> QED
      BY <2>3, SourceFacts
  <1>7. DOMAIN inodes = DOMAIN built
    BY <1>4
  <1>8. \A n \in DOMAIN built : /\ inodes[n] \in Inodes
                                /\ inodes[n].content = built[n]
                                /\ inodes[n].writable = setup.writable
    <2>1. \A n \in DOMAIN built : built[n] \in Installers
      BY <1>2
    <2>2. \A n \in DOMAIN built : inodes[n] = Inode(built[n], TRUE, setup.writable)
      BY <1>4
    <2>3. ASSUME NEW n \in DOMAIN built
          PROVE  /\ inodes[n] \in Inodes
                 /\ inodes[n].content = built[n]
                 /\ inodes[n].writable = setup.writable
      <3>1. built[n] \in Installers /\ inodes[n] = Inode(built[n], TRUE, setup.writable)
        BY <2>1, <2>2
      <3>2. PICK e \in BOOLEAN, w \in BOOLEAN : e = TRUE /\ w = setup.writable
        BY <1>3
      <3>3. inodes[n] = Inode(built[n], e, w)
        BY <3>1, <3>2
      <3>4. built[n] \in Installers \cup {None}
        BY <3>1
      <3>5. /\ inodes[n] \in Inodes /\ inodes[n].content = built[n] /\ inodes[n].writable = w
        BY <3>3, <3>4, InodeFacts
      <3> QED
        BY <3>2, <3>5
    <2> QED
      BY <2>3, Zenon
  <1>9. inodes \in Seq(Inodes)
    <2>1. Len(built) \in Nat /\ DOMAIN built = 1..Len(built)
      BY <1>2
    <2>2. inodes \in [1..Len(built) -> Inodes]
      BY <1>4, <1>8, <2>1
    <2> QED
      BY <2>1, <2>2, SeqDef
  <1>10. pc = [c \in Processes |-> "start"]
    BY DEF Init
  <1>11. ProcInv
    <2>1. proc = [c \in Processes |-> Started(c, setup)]
      BY DEF Init
    <2>2. quiet \in BOOLEAN /\ latest = None
      BY DEF Init
    <2> QED
      BY <1>3, <1>10, <2>1, <2>2 DEF ProcInv, Labels, Processes, Located
  <1>12. FileInv
    <2>1. open = [i \in Installers |-> [from |-> 0, to |-> 0]]
      BY DEF Init
    <2>2. open = [i \in Installers |-> [from |-> open[i].from, to |-> open[i].to]]
      BY <2>1
    <2>3. \A i \in Installers : pc[i] = "start"
      BY <1>10 DEF Processes
    <2>4. \A path \in DOMAIN files : files[path] \in DOMAIN inodes
      BY <1>5, <1>6, <1>7
    <2>5. \A i \in Installers : /\ Source(i) \in DOMAIN files
                                /\ inodes[files[Source(i)]].writable = setup.writable
      BY <1>5, <1>6, <1>8
    <2> QED
      BY <1>5, <1>9, <2>2, <2>3, <2>4, <2>5 DEF FileInv
  <1>13. AgentInv /\ Intact
    BY <1>6, <1>8 DEF AgentInv, Intact, Init
  <1>14. QuietInv
    <2>1. \A c \in Processes : pc[c] = "start"
      BY <1>10
    <2>2. latest = None /\ Serving = {}
      BY DEF Init, Serving
    <2> QED
      BY <1>13, <2>1, <2>2 DEF QuietInv, Alone, Busy, Processes, Replacing
  <1> QED
    BY <1>11, <1>12, <1>13, <1>14 DEF InstallerInv

-----------------------------------------------------------------------------
(***************************************************************************)
(* What the steps have in common.                                          *)
(***************************************************************************)

\* The paths of the processes, and that none is among Bazel's outputs.
LEMMA Places ==
    ASSUME ProcInv
    PROVE  /\ \A i \in Installers : Located(i) => Target(i) = Installed
           /\ \A g \in Getters : HelperBin(g) = Sought
           /\ \A j \in Installers : Source(j) # Installed /\ Source(j) # Sought
           /\ IsAbs(Installed)
  <1>1. setup \in Setups
    BY DEF ProcInv
  <1>2. \A i \in Installers : i \notin Getters /\ i \in Processes
    BY InstallerAssumption DEF Processes
  <1>3. \A i \in Installers : Located(i) => Target(i) = Installed
    BY <1>1, <1>2, BegunFacts DEF ProcInv, Target, Installed
  <1>4. \A g \in Getters : HelperBin(g) = Sought
    BY <1>1, UserFacts DEF HelperBin, Sought, User
  <1>5. \A j \in Installers : Source(j) # Installed /\ Source(j) # Sought
    <2>1. \A j \in Installers : Started(j, setup) = Base(setup)
      BY <1>1, <1>2, BaseFacts
    <2> QED
      BY <1>1, <2>1, DestinationAssumption DEF Installed, Sought, Here
  <1>6. PathEnv(Here(setup))
    BY <1>1, BaseFacts, SetupPaths DEF Here
  <1> QED
    BY <1>3, <1>4, <1>5, <1>6, MeantPaths DEF Installed

\* A process goes on.
LEMMA MoveStep ==
    ASSUME ProcInv, NEW c \in Processes, NEW label \in Labels, Goto(c, label),
           UNCHANGED <<setup, proc>>, quiet' \in BOOLEAN,
           pc[c] # "exit0", label # "start",
           Located(c) \/ label = "exit1",
           c \in Installers => label # "dial",
           c \in Getters => label \in {"exit0", "exit1"},
           latest' = latest \/ (latest' = c /\ c \in Installers /\ label = "exit0")
    PROVE  /\ ProcInv'
           /\ pc' \in [Processes -> Labels] /\ pc'[c] = label
           /\ \A d \in Processes : d # c => pc'[d] = pc[d]
  <1>1. /\ pc' \in [Processes -> Labels] /\ pc'[c] = label
        /\ \A d \in Processes : d # c => pc'[d] = pc[d]
    BY DEF ProcInv, Goto
  <1>2. /\ \A i \in Installers : i \in Processes
        /\ \A g \in Getters : g \in Processes
    BY DEF Processes
  <1>3. /\ \A i \in Installers : pc'[i] # "dial"
        /\ \A g \in Getters : pc'[g] \in {"start", "dial", "exit0", "exit1"}
    BY <1>1, <1>2 DEF ProcInv
  <1>4. \A d \in Processes : /\ pc'[d] = "start" => proc'[d] = Started(d, setup')
                            /\ Located(d)' => proc'[d] = Ready(d, setup')
    BY <1>1 DEF ProcInv, Located
  <1>5. latest' \in Installers \cup {None} /\ (latest' # None => pc'[latest'] = "exit0")
    BY <1>1, <1>2 DEF ProcInv
  <1>6. setup' \in Setups /\ DOMAIN proc' = Processes /\ proc' = [d \in Processes |-> proc'[d]]
    BY DEF ProcInv
  <1> QED
    BY <1>1, <1>3, <1>4, <1>5, <1>6 DEF ProcInv

\* A process starts.
LEMMA EnterStep ==
    ASSUME ProcInv, NEW c \in Processes, NEW label \in Labels, UNCHANGED setup,
           pc[c] = "start", Enter(c, Ready(c, setup), label),
           label \notin {"start", "exit0", "exit1"},
           c \in Installers => label # "dial", c \in Getters => label = "dial",
           latest' \in {latest, None}
    PROVE  /\ ProcInv'
           /\ pc' \in [Processes -> Labels] /\ pc'[c] = label
           /\ \A d \in Processes : d # c => pc'[d] = pc[d]
           /\ quiet' => quiet /\ \A d \in Processes : Busy(d) => c \in Getters /\ d \in Getters
  <1>1. /\ pc' \in [Processes -> Labels] /\ pc'[c] = label
        /\ \A d \in Processes : d # c => pc'[d] = pc[d]
    BY DEF ProcInv, Goto, Enter
  <1>2. /\ \A i \in Installers : i \in Processes
        /\ \A g \in Getters : g \in Processes
    BY DEF Processes
  <1>3. /\ \A i \in Installers : pc'[i] # "dial"
        /\ \A g \in Getters : pc'[g] \in {"start", "dial", "exit0", "exit1"}
    BY <1>1, <1>2 DEF ProcInv
  <1>4. PICK q : q = Ready(c, setup)
    OBVIOUS
  <1>5. proc' = [proc EXCEPT ![c] = q]
    BY <1>4 DEF Enter
  <1>6. /\ DOMAIN proc' = Processes /\ proc' = [d \in Processes |-> proc'[d]]
        /\ proc'[c] = q /\ \A d \in Processes : d # c => proc'[d] = proc[d]
    BY <1>5 DEF ProcInv
  <1>7. \A d \in Processes : /\ pc'[d] = "start" => proc'[d] = Started(d, setup')
                            /\ Located(d)' => proc'[d] = Ready(d, setup')
    BY <1>1, <1>4, <1>6 DEF ProcInv, Located
  <1>8. latest' \in Installers \cup {None} /\ (latest' # None => pc'[latest'] = "exit0")
    BY <1>1, <1>2 DEF ProcInv
  <1>9. quiet' = (quiet /\ \A d \in Processes : Busy(d) => {c, d} \subseteq Getters)
    BY DEF Enter
  <1>10. quiet' \in BOOLEAN
    BY <1>9
  <1>11. quiet' => quiet /\ \A d \in Processes : Busy(d) => c \in Getters /\ d \in Getters
    BY <1>9
  <1>12. setup' \in Setups
    BY DEF ProcInv
  <1> QED
    BY <1>1, <1>3, <1>6, <1>7, <1>8, <1>10, <1>11, <1>12 DEF ProcInv

\* The files stay, and no installer opens any.
LEMMA FilesStay ==
    ASSUME FileInv, UNCHANGED <<setup, files, inodes, open>>,
           \A i \in Installers : pc'[i] \in {"create", "copy"} => pc'[i] = pc[i]
    PROVE  FileInv' /\ (Intact => Intact')
  BY DEF FileInv, Intact, Installed

\* No agent is launched.
LEMMA AgentsFewer ==
    ASSUME AgentInv, UNCHANGED setup, DOMAIN inodes \subseteq DOMAIN inodes',
           \A a \in agents' : a \in agents, stopping' \subseteq agents'
    PROVE  AgentInv'
  BY DEF AgentInv, AbsoluteDirectories

LEMMA AgentsStay ==
    ASSUME AgentInv, UNCHANGED <<setup, agents, stopping>>, DOMAIN inodes \subseteq DOMAIN inodes'
    PROVE  AgentInv'
  BY AgentsFewer DEF AgentInv

\* An installation under way, with nothing else running, goes on.
LEMMA QuietMove ==
    ASSUME ProcInv, QuietInv, NEW i \in Installers, Busy(i), UNCHANGED setup, NEW label,
           pc'[i] = label, \A d \in Processes : d # i => pc'[d] = pc[d],
           Intact',
           label \in {"link", "open", "create"} => Installed \notin DOMAIN files',
           label = "copy" => /\ Installed \in DOMAIN files' /\ files'[Installed] = open'[i].to
                             /\ \A j \in Installers : files'[Source(j)] # open'[i].to,
           AbsoluteDirectories => Serving' = {},
           latest' # latest =>
              /\ label \in {"exit0", "exit1"} /\ Installed \in DOMAIN files'
              /\ inodes'[files'[Installed]].content = latest'
    PROVE  QuietInv'
  <1>1. Installed' = Installed /\ AbsoluteDirectories' = AbsoluteDirectories
    BY DEF Installed, AbsoluteDirectories
  <1>2. /\ \A j \in Installers : j \in Processes /\ j \notin Getters
        /\ i \in Processes /\ i \notin Getters
    BY InstallerAssumption DEF Processes
  <1>3. \A d \in Processes : d # i => ~Busy(d) /\ ~Busy(d)'
    BY <1>2 DEF QuietInv, Alone, Busy
  <1>4. latest = None
    BY DEF QuietInv
  <1>5. \A j \in Installers : j # i => pc'[j] \in {"start", "exit0", "exit1"}
    BY <1>2, <1>3 DEF Busy
  <1>6. Alone'
    BY <1>3 DEF Alone
  <1>7. \A j \in Installers :
            pc'[j] \in {"link", "open", "create"} => Installed' \notin DOMAIN files'
    BY <1>1, <1>5
  <1>8. \A j \in Installers : pc'[j] = "copy" =>
            /\ Installed' \in DOMAIN files' /\ files'[Installed'] = open'[j].to
            /\ \A k \in Installers : files'[Source(k)] # open'[j].to
    BY <1>1, <1>5
  <1>9. AbsoluteDirectories' => Serving' = {}
    BY <1>1
  <1>10. latest' # None =>
            /\ \A j \in Installers : ~Busy(j)'
            /\ Installed' \in DOMAIN files'
            /\ inodes'[files'[Installed']].content = latest'
    BY <1>1, <1>4, <1>5 DEF Busy
  <1> QED
    BY <1>6, <1>7, <1>8, <1>9, <1>10 DEF QuietInv

-----------------------------------------------------------------------------
(***************************************************************************)
(* The installer's steps.                                                  *)
(***************************************************************************)
LEMMA ProcessFacts ==
    /\ \A i \in Installers : i \in Processes /\ i \notin Getters
    /\ \A g \in Getters : g \in Processes /\ g \notin Installers
  BY InstallerAssumption DEF Processes

\* A client or installer that gives up before it has started.
LEMMA RefusedStep ==
    ASSUME InstallerInv, NEW c \in Processes, pc[c] = "start", Goto(c, "exit1"),
           UNCHANGED <<setup, files, inodes, proc, open, agents, stopping, quiet, latest>>
    PROVE  InstallerInv'
  <1>1. ProcInv /\ FileInv /\ AgentInv /\ quiet \in BOOLEAN
    BY DEF InstallerInv, ProcInv
  <1>2. /\ ProcInv' /\ pc'[c] = "exit1"
        /\ \A d \in Processes : d # c => pc'[d] = pc[d]
    BY <1>1, MoveStep DEF Labels
  <1>3. \A i \in Installers : pc'[i] \in {"create", "copy"} => pc'[i] = pc[i]
    BY <1>2, ProcessFacts
  <1>4. FileInv' /\ (Intact => Intact') /\ AgentInv'
    BY <1>1, <1>3, FilesStay, AgentsStay
  <1>5. QuietInv => QuietInv'
    <2>1. Installed' = Installed /\ AbsoluteDirectories' = AbsoluteDirectories
          /\ (Runs(Installed))' = Runs(Installed)
      BY DEF Installed, AbsoluteDirectories, Runs, InodeOf
    <2>2. ASSUME NEW j \in Installers
          PROVE  /\ pc'[j] \in Replacing => pc'[j] = pc[j]
                 /\ pc'[j] \in {"link", "open", "create"} => pc'[j] = pc[j]
                 /\ pc'[j] = "copy" => pc[j] = "copy"
                 /\ ~Busy(j) => ~Busy(j)'
      <3>1. j \in Processes
        BY ProcessFacts
      <3>2. pc'[j] = pc[j] \/ pc'[j] = "exit1"
        BY <1>2, <3>1
      <3> QED
        BY <3>1, <3>2 DEF Replacing, Busy
    <2>3. Alone => Alone'
      <3>1. ASSUME Alone, NEW d \in Processes, NEW e \in Processes, Busy(d)', Busy(e)', d # e
            PROVE  d \in Getters /\ e \in Getters
        BY <1>2, <3>1 DEF Alone, Busy
      <3> QED
        BY <3>1 DEF Alone
    <2>4. HAVE QuietInv
    <2>5. /\ \A j \in Installers : pc'[j] \in {"link", "open", "create"} => Installed \notin DOMAIN files
          /\ \A j \in Installers : pc'[j] = "copy" =>
                /\ Installed \in DOMAIN files /\ files[Installed] = open[j].to
                /\ \A k \in Installers : files[Source(k)] # open[j].to
      BY <2>2, <2>4 DEF QuietInv
    <2>6. AbsoluteDirectories =>
              /\ \A j \in Installers : pc'[j] \in Replacing => Serving = {}
              /\ \A a \in Serving : Runs(Installed) /\ a.inode = files[Installed]
      BY <2>2, <2>4 DEF QuietInv
    <2>7. latest # None =>
              /\ \A j \in Installers : ~Busy(j)'
              /\ Installed \in DOMAIN files
              /\ inodes[files[Installed]].content = latest
      BY <2>2, <2>4 DEF QuietInv
    <2>8. Intact' /\ Alone'
      BY <1>4, <2>3, <2>4 DEF QuietInv
    <2>9. Serving' = Serving
      BY DEF Serving
    <2> QED
      BY <2>1, <2>5, <2>6, <2>7, <2>8, <2>9 DEF QuietInv
  <1> QED
    BY <1>2, <1>4, <1>5 DEF InstallerInv

LEMMA BeginStep ==
    ASSUME InstallerInv, NEW i \in Installers, Begin(i) \/ BeginFails(i)
    PROVE  InstallerInv'
  <1>1. ProcInv /\ FileInv /\ AgentInv /\ pc[i] = "start" /\ i \in Processes /\ i \notin Getters
    BY ProcessFacts DEF InstallerInv, Begin, BeginFails
  <1>2. CASE BeginFails(i)
    BY <1>1, <1>2, RefusedStep DEF BeginFails
  <1>3. CASE Begin(i)
    <2>1. /\ Enter(i, SetupEnvironment(proc[i]), "shutdown") /\ latest' = None
          /\ UNCHANGED <<setup, files, inodes, open, agents, stopping>>
      BY <1>3 DEF Begin
    <2>2. SetupEnvironment(proc[i]) = Ready(i, setup)
      BY <1>1 DEF ProcInv, Ready
    <2>3. Enter(i, Ready(i, setup), "shutdown")
      BY <2>1, <2>2
    <2>4. /\ ProcInv' /\ pc'[i] = "shutdown"
          /\ \A d \in Processes : d # i => pc'[d] = pc[d]
          /\ quiet' => quiet /\ \A d \in Processes : Busy(d) => i \in Getters /\ d \in Getters
      BY <1>1, <2>1, <2>3, EnterStep DEF Labels
    <2>5. \A j \in Installers : pc'[j] \in {"create", "copy"} => pc'[j] = pc[j]
      BY <2>4, ProcessFacts
    <2>6. FileInv' /\ (Intact => Intact') /\ AgentInv'
      BY <1>1, <2>1, <2>5, FilesStay, AgentsStay
    <2>7. ASSUME quiet' PROVE QuietInv'
      <3>1. QuietInv /\ \A d \in Processes : ~Busy(d)
        BY <1>1, <2>4, <2>7 DEF InstallerInv
      <3>2. \A d \in Processes : d # i => ~Busy(d)'
        BY <2>4, <3>1 DEF Busy
      <3>3. Alone'
        BY <3>2 DEF Alone
      <3>4. \A j \in Installers : pc'[j] \in {"start", "exit0", "exit1", "shutdown"}
        BY <2>4, <3>2, ProcessFacts DEF Busy
      <3>5. Installed' = Installed /\ AbsoluteDirectories' = AbsoluteDirectories
            /\ (Runs(Installed))' = Runs(Installed)
        BY <2>1 DEF Installed, AbsoluteDirectories, Runs, InodeOf
      <3> QED
        BY <2>1, <2>6, <3>1, <3>3, <3>4, <3>5 DEF QuietInv, Replacing, Serving
    <2> QED
      BY <2>1, <2>4, <2>6, <2>7 DEF InstallerInv
  <1> QED
    BY <1>2, <1>3

LEMMA ShutdownStep ==
    ASSUME InstallerInv, NEW i \in Installers, AttemptAgentShutdown(i)
    PROVE  InstallerInv'
  <1>1. ProcInv /\ FileInv /\ AgentInv /\ pc[i] = "shutdown" /\ i \in Processes
        /\ quiet \in BOOLEAN /\ Located(i) /\ Busy(i) /\ setup \in Setups
    BY ProcessFacts DEF InstallerInv, ProcInv, AttemptAgentShutdown, Located, Busy
  <1>2. Goto(i, "remove") /\ UNCHANGED <<setup, files, inodes, proc, open, agents, quiet, latest>>
    BY DEF AttemptAgentShutdown
  <1>3. /\ ProcInv' /\ pc'[i] = "remove"
        /\ \A d \in Processes : d # i => pc'[d] = pc[d]
    BY <1>1, <1>2, MoveStep, ProcessFacts DEF Labels
  <1>4. \A j \in Installers : pc'[j] \in {"create", "copy"} => pc'[j] = pc[j]
    BY <1>3, ProcessFacts
  <1>5. stopping' = stopping \cup Addressed(i) /\ stopping' \subseteq agents'
    BY <1>1, <1>2 DEF AttemptAgentShutdown, Addressed, AgentInv
  <1>6. FileInv' /\ (Intact => Intact') /\ AgentInv'
    BY <1>1, <1>2, <1>4, <1>5, FilesStay, AgentsFewer
  <1>7. ASSUME QuietInv PROVE QuietInv'
    <2>1. ASSUME AbsoluteDirectories PROVE Serving' = {}
      <3>1. CASE Runs(Target(i))
        <4>1. Absolute(setup)
          BY <2>1 DEF Absolute, AbsoluteDirectories
        <4>2. Rendezvous(SetupEnvironment(proc[i])) = Rendezvous(Here(setup))
          BY <1>1, <4>1, OnePlace DEF ProcInv
        <4>3. \A a \in agents : a.socket = Rendezvous(Here(setup)).socket
          BY <1>1, <2>1 DEF AgentInv
        <4>4. Addressed(i) = agents
          BY <3>1, <4>2, <4>3 DEF Addressed
        <4> QED
          BY <1>2, <1>5, <4>4 DEF Serving
      <3>2. CASE ~Runs(Target(i))
        <4>1. ~Runs(Installed)
          BY <1>1, <3>2, Places
        <4> QED
          BY <1>2, <1>5, <1>7, <2>1, <4>1 DEF QuietInv, Serving
      <3> QED
        BY <3>1, <3>2
    <2>2. Intact'
      BY <1>6, <1>7 DEF QuietInv
    <2> QED
      BY <1>1, <1>2, <1>3, <1>7, <2>1, <2>2, QuietMove
  <1> QED
    BY <1>2, <1>3, <1>6, <1>7 DEF InstallerInv

\* A failure that the installer ignores.
LEMMA IgnoredStep ==
    ASSUME InstallerInv, NEW i \in Installers, ShutdownFails(i) \/ RemoveFails(i)
    PROVE  InstallerInv'
  <1>1. ProcInv /\ FileInv /\ AgentInv /\ i \in Processes /\ Located(i) /\ pc[i] # "exit0"
    BY ProcessFacts DEF InstallerInv, ShutdownFails, RemoveFails, Located
  <1>2. /\ quiet' = FALSE
        /\ UNCHANGED <<setup, files, inodes, proc, open, agents, stopping, latest>>
    BY DEF ShutdownFails, RemoveFails
  <1>3. quiet' \in BOOLEAN
    BY <1>2
  <1>7. PICK label \in {"remove", "link"} : Goto(i, label)
    BY DEF ShutdownFails, RemoveFails
  <1>4. /\ ProcInv' /\ pc'[i] = label
        /\ \A d \in Processes : d # i => pc'[d] = pc[d]
    BY <1>1, <1>2, <1>3, <1>7, MoveStep, ProcessFacts DEF Labels
  <1>5. \A j \in Installers : pc'[j] \in {"create", "copy"} => pc'[j] = pc[j]
    BY <1>4, ProcessFacts
  <1>6. FileInv' /\ (Intact => Intact') /\ AgentInv'
    BY <1>1, <1>2, <1>5, FilesStay, AgentsStay
  <1> QED
    BY <1>2, <1>4, <1>6 DEF InstallerInv

\* Names for files that are not the destination's stay.
LEMMA RemoveOldStep ==
    ASSUME InstallerInv, NEW i \in Installers, RemoveOld(i)
    PROVE  InstallerInv'
  <1>1. ProcInv /\ FileInv /\ AgentInv /\ pc[i] = "remove" /\ i \in Processes
        /\ quiet \in BOOLEAN /\ Located(i) /\ Busy(i)
    BY ProcessFacts DEF InstallerInv, ProcInv, RemoveOld, Located, Busy
  <1>2. Goto(i, "link") /\ UNCHANGED <<setup, inodes, proc, open, agents, stopping, quiet, latest>>
    BY DEF RemoveOld
  <1>3. /\ ProcInv' /\ pc'[i] = "link"
        /\ \A d \in Processes : d # i => pc'[d] = pc[d]
    BY <1>1, <1>2, MoveStep, ProcessFacts DEF Labels
  <1>4. files' = [path \in DOMAIN files \ {Installed} |-> files[path]]
    BY <1>1, Places DEF RemoveOld
  <1>5. /\ DOMAIN files' = DOMAIN files \ {Installed}
        /\ \A path \in DOMAIN files' : files'[path] = files[path]
        /\ files' = [path \in DOMAIN files' |-> files'[path]]
    BY <1>4
  <1>6. \A j \in Installers : Source(j) \in DOMAIN files' /\ files'[Source(j)] = files[Source(j)]
    BY <1>1, <1>5, Places DEF FileInv
  <1>7. FileInv'
    <2>1. Installed' = Installed
      BY <1>2 DEF Installed
    <2>2. \A j \in Installers : pc'[j] \in {"create", "copy"} => pc'[j] = pc[j]
      BY <1>3, ProcessFacts
    <2> QED
      BY <1>1, <1>2, <1>5, <1>6, <2>1, <2>2 DEF FileInv
  <1>8. AgentInv' /\ (Intact => Intact')
    BY <1>1, <1>2, <1>6, AgentsStay DEF Intact
  <1>9. ASSUME QuietInv PROVE QuietInv'
    <2>1. AbsoluteDirectories => Serving' = {}
      BY <1>1, <1>2, <1>9 DEF QuietInv, Replacing, Serving
    <2>2. Intact'
      BY <1>8, <1>9 DEF QuietInv
    <2> QED
      BY <1>1, <1>2, <1>3, <1>5, <1>9, <2>1, <2>2, QuietMove
  <1> QED
    BY <1>2, <1>3, <1>7, <1>8, <1>9 DEF InstallerInv

\* An installer that goes on to read its source, or gives up.
LEMMA ReadStep ==
    ASSUME InstallerInv, NEW i \in Installers, NEW label \in {"open", "create", "exit1"}, Goto(i, label),
           pc[i] \in {"link", "open", "create", "copy"}, pc[i] = "copy" => label = "exit1",
           label = "create" => open' = [open EXCEPT ![i].from = files[Source(i)]],
           label # "create" => open' = open,
           UNCHANGED <<setup, files, inodes, proc, agents, stopping, quiet, latest>>
    PROVE  InstallerInv'
  <1>1. ProcInv /\ FileInv /\ AgentInv /\ i \in Processes
        /\ quiet \in BOOLEAN /\ Located(i) /\ Busy(i)
    BY ProcessFacts DEF InstallerInv, ProcInv, Located, Busy
  <1>2. /\ ProcInv' /\ pc'[i] = label
        /\ \A d \in Processes : d # i => pc'[d] = pc[d]
    BY <1>1, MoveStep, ProcessFacts DEF Labels
  <1>3. FileInv'
    <2>1. CASE label = "create"
      <3>1. open = [j \in Installers |-> [from |-> open[j].from, to |-> open[j].to]]
        BY <1>1 DEF FileInv
      <3>2. PICK n : n = files[Source(i)]
        OBVIOUS
      <3>3. open' = [open EXCEPT ![i].from = n]
        BY <2>1, <3>2
      <3>4. /\ open'[i] = [from |-> n, to |-> open[i].to]
            /\ \A j \in Installers : j # i => open'[j] = open[j]
            /\ DOMAIN open' = Installers
        BY <3>1, <3>3
      <3>5. open' = [j \in Installers |-> [from |-> open'[j].from, to |-> open'[j].to]]
        <4>1. open' = [j \in Installers |-> open'[j]]
          BY <3>1, <3>3
        <4>2. \A j \in Installers : open'[j] = [from |-> open'[j].from, to |-> open'[j].to]
          BY <3>1, <3>4
        <4> QED
          BY <4>1, <4>2
      <3>6. Installed' = Installed
        BY DEF Installed
      <3>7. \A j \in Installers : j # i => pc'[j] = pc[j]
        BY <1>2, ProcessFacts
      <3>8. \A j \in Installers : pc'[j] \in {"create", "copy"} => open'[j].from = files[Source(j)]
        BY <1>1, <3>2, <3>4, <3>7 DEF FileInv
      <3>9. \A j \in Installers : pc'[j] = "copy" =>
                open'[j].to \in DOMAIN inodes /\ inodes[open'[j].to].writable
        <4>1. \A j \in Installers : pc'[j] = "copy" => pc[j] = "copy" /\ open'[j] = open[j]
          BY <1>2, <2>1, <3>4, <3>7
        <4> QED
          BY <1>1, <4>1 DEF FileInv
      <3> QED
        BY <1>1, <3>5, <3>6, <3>8, <3>9 DEF FileInv
    <2>2. CASE label # "create"
      <3>1. \A j \in Installers : pc'[j] \in {"create", "copy"} => pc'[j] = pc[j]
        BY <1>2, <2>2, ProcessFacts
      <3> QED
        BY <1>1, <2>2, <3>1, FilesStay
    <2> QED
      BY <2>1, <2>2
  <1>4. AgentInv' /\ (Intact => Intact')
    BY <1>1, AgentsStay DEF Intact
  <1>5. ASSUME QuietInv PROVE QuietInv'
    <2>1. AbsoluteDirectories => Serving' = {}
      BY <1>1, <1>5 DEF QuietInv, Replacing, Serving
    <2>2. Intact' /\ (label # "exit1" => Installed \notin DOMAIN files')
      BY <1>4, <1>5 DEF QuietInv
    <2> QED
      BY <1>1, <1>2, <1>5, <2>1, <2>2, QuietMove
  <1> QED
    BY <1>2, <1>3, <1>4, <1>5 DEF InstallerInv

LEMMA OpenStep ==
    ASSUME InstallerInv, NEW i \in Installers, Open(i) \/ CreateFails(i) \/ CopyFails(i)
    PROVE  InstallerInv'
  <1>1. CASE Open(i)
    <2>1. Source(i) \in DOMAIN files
      BY DEF InstallerInv, FileInv
    <2> QED
      BY <1>1, <2>1, ReadStep DEF Open
  <1>2. CASE CreateFails(i)
    BY <1>2, ReadStep DEF CreateFails
  <1>3. CASE CopyFails(i)
    BY <1>3, ReadStep DEF CopyFails
  <1> QED
    BY <1>1, <1>2, <1>3

LEMMA LinkStep ==
    ASSUME InstallerInv, NEW i \in Installers, Link(i)
    PROVE  InstallerInv'
  <1>1. ProcInv /\ FileInv /\ AgentInv /\ pc[i] = "link" /\ i \in Processes
        /\ quiet \in BOOLEAN /\ Located(i) /\ Busy(i)
    BY ProcessFacts DEF InstallerInv, ProcInv, Link, Located, Busy
  <1>2. Target(i) = Installed
    BY <1>1, Places
  <1>3. CASE ~(setup.linkable /\ Source(i) \in DOMAIN files /\ Target(i) \notin DOMAIN files)
    BY <1>1, <1>3, ReadStep DEF Link
  <1>4. CASE setup.linkable /\ Source(i) \in DOMAIN files /\ Target(i) \notin DOMAIN files
    <2>1. /\ files' = With(files, Installed, files[Source(i)])
          /\ Goto(i, "exit0") /\ latest' = i
          /\ UNCHANGED <<setup, inodes, proc, open, agents, stopping, quiet>>
      BY <1>2, <1>4 DEF Link, Succeed
    <2>2. /\ ProcInv' /\ pc'[i] = "exit0"
          /\ \A d \in Processes : d # i => pc'[d] = pc[d]
      BY <1>1, <2>1, MoveStep, ProcessFacts DEF Labels
    <2>3. /\ DOMAIN files' = DOMAIN files \cup {Installed}
          /\ files'[Installed] = files[Source(i)]
          /\ \A path \in DOMAIN files : files'[path] = files[path]
          /\ files' = [path \in DOMAIN files' |-> files'[path]]
      BY <1>2, <1>4, <2>1 DEF With
    <2>4. \A j \in Installers : Source(j) \in DOMAIN files' /\ files'[Source(j)] = files[Source(j)]
      BY <1>1, <2>3 DEF FileInv
    <2>5. FileInv'
      <3>1. Installed' = Installed
        BY <2>1 DEF Installed
      <3>2. \A j \in Installers : pc'[j] \in {"create", "copy"} => pc'[j] = pc[j]
        BY <2>2, ProcessFacts
      <3>3. ASSUME NEW path \in DOMAIN files'
            PROVE  /\ files'[path] \in DOMAIN inodes
                   /\ path = Installed \/ \E j \in Installers : path = Source(j)
        BY <1>1, <1>4, <2>3 DEF FileInv
      <3>4. \A j \in Installers : inodes[files'[Source(j)]].writable = setup.writable
        BY <1>1, <2>4 DEF FileInv
      <3>5. \A j \in Installers : pc'[j] \in {"create", "copy"} => open[j].from = files'[Source(j)]
        BY <1>1, <2>4, <3>2 DEF FileInv
      <3>6. \A j \in Installers : pc'[j] = "copy" =>
                open[j].to \in DOMAIN inodes /\ inodes[open[j].to].writable
        <4>1. \A j \in Installers : pc'[j] = "copy" => pc[j] = "copy"
          BY <3>2
        <4> QED
          BY <1>1, <4>1 DEF FileInv
      <3>7. inodes \in Seq(Inodes)
            /\ open = [j \in Installers |-> [from |-> open[j].from, to |-> open[j].to]]
        BY <1>1 DEF FileInv
      <3> QED
        BY <2>1, <2>3, <2>4, <3>1, <3>3, <3>4, <3>5, <3>6, <3>7 DEF FileInv
    <2>6. AgentInv' /\ (Intact => Intact')
      BY <1>1, <2>1, <2>4, AgentsStay DEF Intact
    <2>7. ASSUME QuietInv PROVE QuietInv'
      <3>1. AbsoluteDirectories => Serving' = {}
        BY <1>1, <2>1, <2>7 DEF QuietInv, Replacing, Serving
      <3>2. Intact' /\ Intact
        BY <2>6, <2>7 DEF QuietInv
      <3>3. Installed \in DOMAIN files' /\ inodes'[files'[Installed]].content = latest'
        BY <2>1, <2>3, <3>2 DEF Intact
      <3> QED
        BY <1>1, <2>1, <2>2, <2>7, <3>1, <3>2, <3>3, QuietMove
    <2> QED
      BY <2>1, <2>2, <2>5, <2>6, <2>7 DEF InstallerInv
  <1> QED
    BY <1>3, <1>4

\* A file is written through one of its names: a source that is read-only, or
\* that is another file, keeps its content.
LEMMA Written ==
    ASSUME FileInv, NEW n \in DOMAIN inodes, NEW v \in Installers \cup {None},
           inodes' = [inodes EXCEPT ![n].content = v], UNCHANGED <<setup, files>>
    PROVE  /\ inodes' \in Seq(Inodes) /\ DOMAIN inodes' = DOMAIN inodes
           /\ \A k \in DOMAIN inodes : inodes'[k].writable = inodes[k].writable
           /\ \A k \in DOMAIN inodes : k # n => inodes'[k] = inodes[k]
           /\ inodes'[n].content = v
           /\ Intact /\ (\A j \in Installers : files[Source(j)] # n) => Intact'
           /\ Intact /\ ~setup.writable /\ inodes[n].writable => Intact'
  <1>1. inodes \in Seq(Inodes)
    BY DEF FileInv
  <1>2. Len(inodes) \in Nat /\ DOMAIN inodes = 1..Len(inodes) /\ \A k \in DOMAIN inodes : inodes[k] \in Inodes
    BY <1>1
  <1>3. PICK r : r = [inodes[n] EXCEPT !.content = v]
    OBVIOUS
  <1>4. inodes' = [inodes EXCEPT ![n] = r]
    BY <1>3
  <1>5. r \in Inodes /\ r.content = v /\ r.writable = inodes[n].writable
    <2>1. inodes[n] \in Inodes
      BY <1>2
    <2> QED
      BY <1>3, <2>1 DEF Inodes
  <1>6. /\ DOMAIN inodes' = DOMAIN inodes /\ inodes'[n] = r
        /\ \A k \in DOMAIN inodes : k # n => inodes'[k] = inodes[k]
    BY <1>4
  <1>7. inodes' \in Seq(Inodes)
    <2>1. inodes' \in [1..Len(inodes) -> Inodes]
      BY <1>2, <1>4, <1>5, SeqDef
    <2> QED
      BY <1>2, <2>1, SeqDef
  <1>8. \A k \in DOMAIN inodes : inodes'[k].writable = inodes[k].writable
    BY <1>5, <1>6
  <1>9. \A j \in Installers : files[Source(j)] \in DOMAIN inodes
    BY DEF FileInv
  <1>10. Intact /\ (\A j \in Installers : files[Source(j)] # n) => Intact'
    BY <1>6, <1>9 DEF Intact
  <1>11. ~setup.writable /\ inodes[n].writable => \A j \in Installers : files[Source(j)] # n
    <2>1. \A j \in Installers : inodes[files[Source(j)]].writable = setup.writable
      BY DEF FileInv
    <2> QED
      BY <2>1
  <1> QED
    BY <1>5, <1>6, <1>7, <1>8, <1>10, <1>11

LEMMA CopyStep ==
    ASSUME InstallerInv, NEW i \in Installers, Copy(i)
    PROVE  InstallerInv'
  <1>1. ProcInv /\ FileInv /\ AgentInv /\ pc[i] = "copy" /\ i \in Processes
        /\ quiet \in BOOLEAN /\ Located(i) /\ Busy(i)
    BY ProcessFacts DEF InstallerInv, ProcInv, Copy, Located, Busy
  <1>2. /\ Goto(i, "exit0") /\ latest' = i
        /\ UNCHANGED <<setup, files, proc, open, agents, stopping, quiet>>
    BY DEF Copy, Succeed
  <1>3. /\ ProcInv' /\ pc'[i] = "exit0"
        /\ \A d \in Processes : d # i => pc'[d] = pc[d]
    BY <1>1, <1>2, MoveStep, ProcessFacts DEF Labels
  <1>4. PICK n, v : n = open[i].to /\ v = inodes[files[Source(i)]].content
    OBVIOUS
  <1>5. n \in DOMAIN inodes /\ inodes[n].writable /\ v \in Installers \cup {None}
    <2>1. files[Source(i)] \in DOMAIN inodes /\ inodes \in Seq(Inodes)
      BY <1>1 DEF FileInv
    <2>2. inodes[files[Source(i)]] \in Inodes
      BY <2>1
    <2>3. v \in Installers \cup {None}
      BY <1>4, <2>2 DEF Inodes
    <2> QED
      BY <1>1, <1>4, <2>3 DEF FileInv
  <1>6. inodes' = [inodes EXCEPT ![n].content = v]
    <2>1. open[i].from = files[Source(i)]
      BY <1>1 DEF FileInv
    <2> QED
      BY <1>4, <2>1 DEF Copy
  <1>7. /\ inodes' \in Seq(Inodes) /\ DOMAIN inodes' = DOMAIN inodes
        /\ \A k \in DOMAIN inodes : inodes'[k].writable = inodes[k].writable
        /\ inodes'[n].content = v
        /\ Intact /\ (\A j \in Installers : files[Source(j)] # n) => Intact'
        /\ Intact /\ ~setup.writable /\ inodes[n].writable => Intact'
    BY <1>1, <1>2, <1>5, <1>6, Written
  <1>8. FileInv'
    <2>1. Installed' = Installed
      BY <1>2 DEF Installed
    <2>2. \A j \in Installers : pc'[j] \in {"create", "copy"} => pc'[j] = pc[j]
      BY <1>3, ProcessFacts
    <2>3. \A j \in Installers : inodes'[files[Source(j)]].writable = setup.writable
      BY <1>1, <1>7 DEF FileInv
    <2>4. \A j \in Installers : pc'[j] = "copy" =>
              open[j].to \in DOMAIN inodes' /\ inodes'[open[j].to].writable
      <3>1. \A j \in Installers : pc'[j] = "copy" => pc[j] = "copy"
        BY <2>2
      <3> QED
        BY <1>1, <1>7, <3>1 DEF FileInv
    <2> QED
      BY <1>1, <1>2, <1>7, <2>1, <2>2, <2>3, <2>4 DEF FileInv
  <1>9. AgentInv'
    BY <1>1, <1>2, <1>7, AgentsStay
  <1>10. ASSUME QuietInv PROVE QuietInv'
    <2>1. AbsoluteDirectories => Serving' = {}
      BY <1>1, <1>2, <1>10 DEF QuietInv, Replacing, Serving
    <2>2. /\ Intact /\ Installed \in DOMAIN files /\ files[Installed] = n
          /\ \A j \in Installers : files[Source(j)] # n
      BY <1>1, <1>4, <1>10 DEF QuietInv
    <2>3. Intact'
      BY <1>7, <2>2
    <2>4. v = i
      BY <1>4, <2>2 DEF Intact
    <2>5. Installed \in DOMAIN files' /\ inodes'[files'[Installed]].content = latest'
      BY <1>2, <1>7, <2>2, <2>4
    <2> QED
      BY <1>1, <1>2, <1>3, <1>10, <2>1, <2>3, <2>5, QuietMove
  <1>11. ~setup'.writable => Intact'
    BY <1>2, <1>5, <1>7 DEF InstallerInv
  <1> QED
    BY <1>2, <1>3, <1>8, <1>9, <1>10, <1>11 DEF InstallerInv

\* What the two ways to create the destination's file have in common: the
\* installer has an inode open for writing.
LEMMA CreatedFiles ==
    ASSUME FileInv, ProcInv, NEW i \in Installers, NEW n, pc[i] = "create",
           UNCHANGED setup, pc'[i] = "copy", \A j \in Installers : j # i => pc'[j] = pc[j],
           open' = [open EXCEPT ![i].to = n],
           inodes' \in Seq(Inodes), n \in DOMAIN inodes', inodes'[n].writable,
           DOMAIN inodes \subseteq DOMAIN inodes',
           \A k \in DOMAIN inodes : inodes'[k].writable = inodes[k].writable,
           files' = [path \in DOMAIN files' |-> files'[path]],
           \A path \in DOMAIN files' : /\ path \in DOMAIN files \/ path = Installed
                                       /\ files'[path] \in DOMAIN inodes',
           \A j \in Installers : Source(j) \in DOMAIN files' /\ files'[Source(j)] = files[Source(j)]
    PROVE  FileInv' /\ open'[i].to = n
  <1>1. open = [j \in Installers |-> [from |-> open[j].from, to |-> open[j].to]]
    BY DEF FileInv
  <1>2. /\ open'[i] = [from |-> open[i].from, to |-> n]
        /\ \A j \in Installers : j # i => open'[j] = open[j]
    BY <1>1
  <1>3. open' = [j \in Installers |-> [from |-> open'[j].from, to |-> open'[j].to]]
    <2>1. open' = [j \in Installers |-> open'[j]]
      BY <1>1
    <2>2. \A j \in Installers : open'[j] = [from |-> open'[j].from, to |-> open'[j].to]
      BY <1>1, <1>2
    <2> QED
      BY <2>1, <2>2
  <1>4. Installed' = Installed
    BY DEF Installed
  <1>5. \A j \in Installers : pc'[j] \in {"create", "copy"} => open'[j].from = files'[Source(j)]
    BY <1>2 DEF FileInv
  <1>6. ASSUME NEW j \in Installers, pc'[j] = "copy"
        PROVE  open'[j].to \in DOMAIN inodes' /\ inodes'[open'[j].to].writable
    <2>1. CASE j = i
      BY <1>2, <2>1
    <2>2. CASE j # i
      <3>1. pc[j] = "copy" /\ open'[j] = open[j]
        BY <1>2, <1>6, <2>2
      <3> QED
        BY <3>1 DEF FileInv
    <2> QED
      BY <2>1, <2>2
  <1>7. \A j \in Installers : inodes'[files'[Source(j)]].writable = setup'.writable
    <2>1. \A j \in Installers : files[Source(j)] \in DOMAIN inodes
                               /\ inodes[files[Source(j)]].writable = setup.writable
      BY DEF FileInv
    <2> QED
      BY <2>1
  <1>8. \A path \in DOMAIN files' : path = Installed' \/ \E j \in Installers : path = Source(j)
    BY <1>4 DEF FileInv
  <1> QED
    BY <1>2, <1>3, <1>5, <1>6, <1>7, <1>8 DEF FileInv

LEMMA CreateStep ==
    ASSUME InstallerInv, NEW i \in Installers, Create(i)
    PROVE  InstallerInv'
  <1>1. ProcInv /\ FileInv /\ AgentInv /\ pc[i] = "create" /\ i \in Processes
        /\ quiet \in BOOLEAN /\ Located(i) /\ Busy(i)
    BY ProcessFacts DEF InstallerInv, ProcInv, Create, Located, Busy
  <1>2. Goto(i, "copy") /\ UNCHANGED <<setup, proc, agents, stopping, quiet, latest>>
    BY DEF Create
  <1>3. /\ ProcInv' /\ pc'[i] = "copy"
        /\ \A d \in Processes : d # i => pc'[d] = pc[d]
    BY <1>1, <1>2, MoveStep, ProcessFacts DEF Labels
  <1>4. \A j \in Installers : j # i => pc'[j] = pc[j]
    BY <1>3, ProcessFacts
  <1>5. Target(i) = Installed
    BY <1>1, Places
  <1>6. /\ \A path \in DOMAIN files : files[path] \in DOMAIN inodes
        /\ \A j \in Installers : Source(j) \in DOMAIN files
    BY <1>1 DEF FileInv
  <1>7. CASE Installed \in DOMAIN files
    <2>1. PICK n : n = files[Installed]
      OBVIOUS
    <2>2. /\ inodes' = [inodes EXCEPT ![n].content = None] /\ UNCHANGED files
          /\ inodes[n].writable /\ open' = [open EXCEPT ![i].to = n]
      BY <1>5, <1>7, <2>1 DEF Create, Truncatable, InodeOf
    <2>3. n \in DOMAIN inodes
      BY <1>6, <1>7, <2>1
    <2>4. /\ inodes' \in Seq(Inodes) /\ DOMAIN inodes' = DOMAIN inodes
          /\ \A k \in DOMAIN inodes : inodes'[k].writable = inodes[k].writable
          /\ Intact /\ ~setup.writable /\ inodes[n].writable => Intact'
      BY <1>1, <1>2, <2>2, <2>3, Written
    <2>5. inodes'[n].writable
      BY <2>2, <2>3, <2>4
    <2>6. FileInv'
      <3>1. /\ \A path \in DOMAIN files' : /\ path \in DOMAIN files \/ path = Installed
                                           /\ files'[path] \in DOMAIN inodes'
            /\ \A j \in Installers : Source(j) \in DOMAIN files' /\ files'[Source(j)] = files[Source(j)]
            /\ DOMAIN inodes \subseteq DOMAIN inodes' /\ n \in DOMAIN inodes'
        <4>1. files' = files /\ DOMAIN inodes' = DOMAIN inodes
          BY <2>2, <2>4
        <4> QED
          BY <1>6, <2>3, <4>1, Zenon
      <3>2. files' = [path \in DOMAIN files' |-> files'[path]]
        BY <1>1, <2>2 DEF FileInv
      <3> QED
        BY <1>1, <1>2, <1>3, <1>4, <2>2, <2>4, <2>5, <3>1, <3>2, CreatedFiles
    <2>7. AgentInv'
      BY <1>1, <1>2, <2>4, AgentsStay
    <2>8. ~quiet'
      BY <1>1, <1>2, <1>7 DEF InstallerInv, QuietInv
    <2>9. ~setup'.writable => Intact'
      BY <1>2, <2>2, <2>4 DEF InstallerInv
    <2> QED
      BY <1>3, <2>6, <2>7, <2>8, <2>9 DEF InstallerInv
  <1>8. CASE Installed \notin DOMAIN files
    <2>1. PICK r : r = Inode(None, FALSE, TRUE)
      OBVIOUS
    <2>2. r \in Inodes /\ r.writable
      <3>1. PICK e \in BOOLEAN, w \in BOOLEAN : e = FALSE /\ w = TRUE
        OBVIOUS
      <3>2. r = Inode(None, e, w)
        BY <2>1, <3>1
      <3>3. r \in Inodes /\ r.writable = w
        BY <3>2, InodeFacts
      <3> QED
        BY <3>1, <3>3
    <2>3. PICK n : n = Len(inodes) + 1
      OBVIOUS
    <2>4. inodes' = Append(inodes, r)
      BY <1>5, <1>8, <2>1 DEF Create
    <2>5. /\ inodes' \in Seq(Inodes) /\ Len(inodes') = n /\ inodes'[n] = r
          /\ n \in DOMAIN inodes' /\ n \notin DOMAIN inodes
          /\ DOMAIN inodes \subseteq DOMAIN inodes'
          /\ \A k \in DOMAIN inodes : inodes'[k] = inodes[k]
      <3>1. inodes \in Seq(Inodes)
        BY <1>1 DEF FileInv
      <3> QED
        BY <2>2, <2>3, <2>4, <3>1
    <2>6. files' = With(files, Installed, n)
      BY <1>5, <1>8, <2>5 DEF Create
    <2>7. /\ DOMAIN files' = DOMAIN files \cup {Installed} /\ files'[Installed] = n
          /\ \A path \in DOMAIN files : files'[path] = files[path]
      BY <1>8, <2>6 DEF With
    <2>8. open' = [open EXCEPT ![i].to = n]
      BY <1>5, <2>7 DEF Create
    <2>9. \A j \in Installers : /\ Source(j) \in DOMAIN files' /\ files'[Source(j)] = files[Source(j)]
                                /\ files[Source(j)] \in DOMAIN inodes
      BY <1>6, <2>7, Zenon
    <2>10. \A path \in DOMAIN files' : /\ path \in DOMAIN files \/ path = Installed
                                       /\ files'[path] \in DOMAIN inodes'
      BY <1>6, <2>5, <2>7
    <2>11. inodes'[n].writable /\ \A k \in DOMAIN inodes : inodes'[k].writable = inodes[k].writable
      BY <2>2, <2>5
    <2>12. FileInv' /\ open'[i].to = n
      <3>1. files' = [path \in DOMAIN files' |-> files'[path]]
        BY <2>6 DEF With
      <3> QED
        BY <3>1, <1>1, <1>2, <1>3, <1>4, <2>5, <2>7, <2>8, <2>9, <2>10, <2>11, CreatedFiles
    <2>13. AgentInv' /\ (Intact => Intact')
      BY <1>1, <1>2, <2>5, <2>9, AgentsStay DEF Intact
    <2>14. ASSUME QuietInv PROVE QuietInv'
      <3>1. AbsoluteDirectories => Serving' = {}
        BY <1>1, <1>2, <2>14 DEF QuietInv, Replacing, Serving
      <3>2. Intact'
        BY <2>13, <2>14 DEF QuietInv
      <3>3. /\ Installed \in DOMAIN files' /\ files'[Installed] = open'[i].to
            /\ \A j \in Installers : files'[Source(j)] # open'[i].to
        BY <2>5, <2>7, <2>9, <2>12
      <3> QED
        BY <1>1, <1>2, <1>3, <2>14, <3>1, <3>2, <3>3, QuietMove
    <2> QED
      BY <1>2, <1>3, <2>12, <2>13, <2>14 DEF InstallerInv
  <1> QED
    BY <1>7, <1>8

-----------------------------------------------------------------------------
(***************************************************************************)
(* The client's steps.                                                     *)
(***************************************************************************)
LEMMA ExecStep ==
    ASSUME InstallerInv, NEW g \in Getters, Exec(g)
    PROVE  InstallerInv'
  <1>1. ProcInv /\ FileInv /\ AgentInv /\ pc[g] = "start" /\ g \in Processes /\ g \notin Installers
    BY ProcessFacts DEF InstallerInv, Exec
  <1>2. CASE ~(Runs(HelperBin(g)) /\ SetsUp(Wrapper(proc[g])))
    BY <1>1, <1>2, RefusedStep DEF Exec
  <1>3. CASE Runs(HelperBin(g)) /\ SetsUp(Wrapper(proc[g]))
    <2>1. /\ Enter(g, SetupEnvironment(Wrapper(proc[g])), "dial")
          /\ UNCHANGED <<setup, files, inodes, open, agents, stopping, latest>>
      BY <1>3 DEF Exec
    <2>2. SetupEnvironment(Wrapper(proc[g])) = Ready(g, setup)
      BY <1>1 DEF ProcInv, Ready
    <2>3. Enter(g, Ready(g, setup), "dial")
      BY <2>1, <2>2
    <2>4. /\ ProcInv' /\ pc'[g] = "dial"
          /\ \A d \in Processes : d # g => pc'[d] = pc[d]
          /\ quiet' => quiet /\ \A d \in Processes : Busy(d) => g \in Getters /\ d \in Getters
      BY <1>1, <2>1, <2>3, EnterStep DEF Labels
    <2>5. \A j \in Installers : pc'[j] = pc[j]
      BY <1>1, <2>4, ProcessFacts
    <2>6. FileInv' /\ (Intact => Intact') /\ AgentInv'
      BY <1>1, <2>1, <2>5, FilesStay, AgentsStay
    <2>7. ASSUME quiet' PROVE QuietInv'
      <3>1. QuietInv /\ \A d \in Processes : Busy(d) => d \in Getters
        BY <1>1, <2>4, <2>7 DEF InstallerInv
      <3>2. \A d \in Processes : pc'[d] \notin {"start", "exit0", "exit1"} => d \in Getters
        BY <2>4, <3>1 DEF Busy
      <3>3. Alone'
        BY <3>2 DEF Alone, Busy
      <3>4. \A j \in Installers : pc'[j] \in {"start", "exit0", "exit1"}
        BY <3>2, ProcessFacts
      <3>5. Installed' = Installed /\ AbsoluteDirectories' = AbsoluteDirectories
            /\ (Runs(Installed))' = Runs(Installed)
        BY <2>1 DEF Installed, AbsoluteDirectories, Runs, InodeOf
      <3>6. \A j \in Installers : ~Busy(j)'
        BY <3>4 DEF Busy
      <3>7. latest' # None => /\ Installed \in DOMAIN files'
                              /\ inodes'[files'[Installed]].content = latest'
        BY <2>1, <3>1 DEF QuietInv
      <3>8. AbsoluteDirectories =>
                \A a \in Serving' : Runs(Installed) /\ a.inode = files'[Installed]
        BY <2>1, <3>1 DEF QuietInv, Serving
      <3>9. Intact'
        BY <2>6, <3>1 DEF QuietInv
      <3> QED
        BY <3>3, <3>4, <3>5, <3>6, <3>7, <3>8, <3>9 DEF QuietInv, Replacing, Serving
    <2> QED
      BY <2>1, <2>4, <2>6, <2>7 DEF InstallerInv
  <1> QED
    BY <1>2, <1>3

\* An agent is launched from the destination, if at all.
LEMMA LaunchStep ==
    ASSUME InstallerInv, NEW g \in Getters, Get(g), NEW a \in agents', a \notin agents
    PROVE  /\ Runs(Installed) /\ a.inode = files[Installed] /\ a.inode \in DOMAIN inodes
           /\ IsAbs(a.socket) /\ IsAbs(a.pid)
           /\ AbsoluteDirectories =>
                  a.socket = Rendezvous(Here(setup)).socket /\ a.pid = Rendezvous(Here(setup)).pid
  <1>1. ProcInv /\ FileInv /\ pc[g] = "dial" /\ g \in Processes /\ setup \in Setups
    BY ProcessFacts DEF InstallerInv, ProcInv, Get
  <1>2. HelperBin(g) = Sought
    BY <1>1, Places
  <1>3. PICK here : here = Rendezvous(SetupEnvironment(proc[g]))
    OBVIOUS
  <1>4. Runs(Sought) /\ a = [socket |-> here.socket, pid |-> here.pid, inode |-> files[Sought]]
    BY <1>2, <1>3 DEF Get, LaunchAgent
  <1>5. Sought = Installed
    BY <1>1, <1>4, Places DEF Runs, FileInv
  <1>6. proc[g] = Ready(g, setup)
    BY <1>1 DEF ProcInv, Located
  <1>7. IsAbs(here.socket) /\ IsAbs(here.pid)
    <2>1. PathEnv(SetupEnvironment(proc[g]))
      BY <1>1, <1>6, BegunFacts, SetupPaths
    <2> QED
      BY <1>3, <2>1, MeantPaths
  <1>8. AbsoluteDirectories => here = Rendezvous(Here(setup))
    <2>1. AbsoluteDirectories => Absolute(setup)
      BY DEF Absolute, AbsoluteDirectories
    <2> QED
      BY <1>1, <1>3, <1>6, <2>1, OnePlace
  <1>9. a.socket = here.socket /\ a.pid = here.pid /\ a.inode = files[Installed]
    BY <1>4, <1>5
  <1>10. files[Installed] \in DOMAIN inodes
    BY <1>1, <1>4, <1>5 DEF Runs, FileInv
  <1> QED
    BY <1>4, <1>5, <1>7, <1>8, <1>9, <1>10

LEMMA GetStep ==
    ASSUME InstallerInv, NEW g \in Getters, Get(g)
    PROVE  InstallerInv'
  <1>1. ProcInv /\ FileInv /\ AgentInv /\ pc[g] = "dial" /\ g \in Processes /\ g \notin Installers
        /\ quiet \in BOOLEAN /\ Located(g) /\ Busy(g)
    BY ProcessFacts DEF InstallerInv, ProcInv, Get, Located, Busy
  <1>2. PICK label \in {"exit0", "exit1"} : Goto(g, label)
    BY DEF Get
  <1>3. UNCHANGED <<setup, files, inodes, proc, open, stopping, quiet, latest>>
        /\ agents \subseteq agents'
    BY DEF Get, LaunchAgent
  <1>4. /\ ProcInv' /\ pc'[g] = label
        /\ \A d \in Processes : d # g => pc'[d] = pc[d]
    BY <1>1, <1>2, <1>3, MoveStep DEF Labels
  <1>5. \A j \in Installers : pc'[j] = pc[j]
    BY <1>1, <1>4, ProcessFacts
  <1>6. FileInv' /\ (Intact => Intact')
    BY <1>1, <1>3, <1>5, FilesStay
  <1>7. AgentInv'
    <2>1. AbsoluteDirectories' = AbsoluteDirectories
      BY <1>3 DEF AbsoluteDirectories
    <2>2. ASSUME NEW a \in agents'
          PROVE  /\ a.inode \in DOMAIN inodes /\ IsAbs(a.socket) /\ IsAbs(a.pid)
                 /\ AbsoluteDirectories =>
                       a.socket = Rendezvous(Here(setup)).socket /\ a.pid = Rendezvous(Here(setup)).pid
      BY <1>1, LaunchStep DEF AgentInv
    <2>3. stopping' \subseteq agents'
      BY <1>1, <1>3 DEF AgentInv
    <2> QED
      BY <1>3, <2>1, <2>2, <2>3 DEF AgentInv
  <1>8. ASSUME QuietInv PROVE QuietInv'
    <2>1. \A d \in Processes : pc'[d] \notin {"start", "exit0", "exit1"} => d \in Getters
      BY <1>1, <1>4, <1>8 DEF QuietInv, Alone, Busy
    <2>2. Alone'
      BY <2>1 DEF Alone, Busy
    <2>3. \A j \in Installers : pc'[j] \in {"start", "exit0", "exit1"}
      BY <2>1, ProcessFacts
    <2>4. Installed' = Installed /\ AbsoluteDirectories' = AbsoluteDirectories
          /\ (Runs(Installed))' = Runs(Installed)
      BY <1>3 DEF Installed, AbsoluteDirectories, Runs, InodeOf
    <2>5. \A j \in Installers : ~Busy(j)'
      BY <2>3 DEF Busy
    <2>6. latest' # None => /\ Installed \in DOMAIN files'
                            /\ inodes'[files'[Installed]].content = latest'
      BY <1>3, <1>8 DEF QuietInv
    <2>7. ASSUME AbsoluteDirectories, NEW a \in Serving'
          PROVE  Runs(Installed) /\ a.inode = files'[Installed]
      <3>1. a \in agents' /\ (a \in agents => a \in Serving)
        BY <1>3, <2>7 DEF Serving
      <3> QED
        BY <1>3, <1>8, <2>7, <3>1, LaunchStep DEF QuietInv
    <2>8. Intact'
      BY <1>6, <1>8 DEF QuietInv
    <2> QED
      BY <2>2, <2>3, <2>4, <2>5, <2>6, <2>7, <2>8 DEF QuietInv, Replacing, Serving
  <1> QED
    BY <1>3, <1>4, <1>6, <1>7, <1>8 DEF InstallerInv

\* An agent ends.
LEMMA ExitStep ==
    ASSUME InstallerInv, NEW a \in agents, AgentExits(a)
    PROVE  InstallerInv'
  <1>1. UNCHANGED <<setup, files, inodes, proc, pc, open, quiet, latest>>
    BY DEF AgentExits
  <1>2. agents' = agents \ {a} /\ stopping' = stopping \ {a}
    BY DEF AgentExits
  <1>3. Serving' \subseteq Serving
    BY <1>2 DEF Serving
  <1>4. ProcInv' /\ FileInv' /\ (Intact => Intact')
    BY <1>1 DEF InstallerInv, ProcInv, FileInv, Intact, Located, Installed
  <1>5. AgentInv'
    BY <1>1, <1>2, AgentsFewer DEF InstallerInv, AgentInv
  <1>6. ASSUME QuietInv PROVE QuietInv'
    <2>1. Installed' = Installed /\ AbsoluteDirectories' = AbsoluteDirectories
          /\ (Runs(Installed))' = Runs(Installed) /\ (\A c \in Processes : Busy(c)' = Busy(c))
      BY <1>1 DEF Installed, AbsoluteDirectories, Runs, InodeOf, Busy
    <2>2. Alone' /\ Intact'
      BY <1>4, <1>6, <2>1 DEF QuietInv, Alone
    <2>3. AbsoluteDirectories =>
              /\ \A j \in Installers : pc[j] \in Replacing => Serving' = {}
              /\ \A b \in Serving' : Runs(Installed) /\ b.inode = files[Installed]
      BY <1>3, <1>6 DEF QuietInv
    <2>4. latest # None => \A j \in Installers : ~Busy(j)'
      BY <1>6, <2>1, ProcessFacts DEF QuietInv
    <2> QED
      BY <1>1, <1>6, <2>1, <2>2, <2>3, <2>4 DEF QuietInv
  <1> QED
    BY <1>1, <1>4, <1>5, <1>6 DEF InstallerInv

-----------------------------------------------------------------------------
(***************************************************************************)
(* The theorems.                                                           *)
(***************************************************************************)

\* InstallerInv holds of whatever installers and clients do.
THEOREM InstallerInvariance == Spec => []InstallerInv
  <1>1. InstallerInv /\ [Next]_vars => InstallerInv'
    <2> SUFFICES ASSUME InstallerInv, [Next]_vars
                 PROVE  InstallerInv'
      OBVIOUS
    <2>1. ASSUME NEW i \in Installers,
                 \/ Begin(i) \/ BeginFails(i) \/ AttemptAgentShutdown(i) \/ ShutdownFails(i)
                 \/ RemoveOld(i) \/ RemoveFails(i) \/ Link(i) \/ Open(i)
                 \/ Create(i) \/ CreateFails(i) \/ Copy(i) \/ CopyFails(i)
          PROVE  InstallerInv'
      BY <2>1, BeginStep, ShutdownStep, RemoveOldStep, IgnoredStep, LinkStep, OpenStep,
         CreateStep, CopyStep
    <2>2. ASSUME NEW g \in Getters, Exec(g) \/ Get(g)
          PROVE  InstallerInv'
      BY <2>2, ExecStep, GetStep
    <2>3. CASE UNCHANGED vars
      BY <2>3 DEF vars, InstallerInv, ProcInv, FileInv, AgentInv, QuietInv, Intact, Alone, Busy,
                  Located, Runs, InodeOf, Installed, AbsoluteDirectories, Serving
    <2>4. CASE \E a \in agents : AgentExits(a)
      BY <2>4, ExitStep
    <2> QED
      BY <2>1, <2>2, <2>3, <2>4 DEF Next
  <1> QED
    BY <1>1, InitInv, PTL DEF Spec

\* The types of all the variables: a name always leads to an inode, and a
\* process that writes has one open.
THEOREM TypeCorrect == Spec => []TypeOK
  <1>1. InstallerInv => TypeOK
    <2> SUFFICES ASSUME InstallerInv
                 PROVE  TypeOK
      OBVIOUS
    <2>1. ProcInv /\ FileInv /\ AgentInv
      BY DEF InstallerInv
    <2>2. \A path \in DOMAIN files : IsAbs(path) /\ files[path] \in DOMAIN inodes
      BY <2>1, Places, SourceFacts DEF FileInv
    <2>3. \A n \in DOMAIN inodes : inodes[n].content \in Installers \cup {None}
      <3>1. inodes \in Seq(Inodes)
        BY <2>1 DEF FileInv
      <3>2. \A n \in DOMAIN inodes : inodes[n] \in Inodes
        BY <3>1
      <3> QED
        BY <3>2 DEF Inodes
    <2>4. \A i \in Installers : pc[i] = "create" => open[i].from \in DOMAIN inodes
      BY <2>1, <2>2 DEF FileInv
    <2>5. \A i \in Installers : pc[i] = "copy" => open[i].to \in DOMAIN inodes
      BY <2>1 DEF FileInv
    <2>6. /\ \A a \in agents : a.inode \in DOMAIN inodes /\ IsAbs(a.socket) /\ IsAbs(a.pid)
          /\ stopping \subseteq agents
      BY <2>1 DEF AgentInv
    <2>7. /\ setup \in Setups /\ quiet \in BOOLEAN /\ latest \in Installers \cup {None}
          /\ pc \in [Processes -> Labels]
      BY <2>1 DEF ProcInv
    <2> QED
      BY <2>2, <2>3, <2>4, <2>5, <2>6, <2>7 DEF TypeOK, Labels
  <1> QED
    BY <1>1, InstallerInvariance, PTL

\* Bazel's outputs keep their content: hardlinkOrCopy hands them out as hard
\* links and writes through the destination's name, but only ever to an inode
\* of its own if installations take turns or the outputs are read-only.
THEOREM SourcesKept == Spec => []SourcesIntact
  <1>1. InstallerInv => SourcesIntact
    BY DEF InstallerInv, FileInv, QuietInv, Intact, SourcesIntact, InodeOf
  <1> QED
    BY <1>1, InstallerInvariance, PTL

\* An installation that nothing disturbed has replaced the helper as a whole,
\* and every agent of an earlier one that still runs has been told to stop.
THEOREM InstallsReplace == Spec => []InstallReplaces
  <1>1. InstallerInv => InstallReplaces
    <2> SUFFICES ASSUME InstallerInv, quiet, latest # None
                 PROVE  /\ Target(latest) \in DOMAIN files
                        /\ InodeOf(Target(latest)).content = latest
                        /\ AbsoluteDirectories =>
                             \A a \in agents \ stopping : inodes[a.inode].content = latest
      BY DEF InstallReplaces
    <2>1. ProcInv /\ QuietInv
      BY DEF InstallerInv
    <2>2. latest \in Installers /\ Located(latest)
      BY <2>1 DEF ProcInv, Located
    <2>3. Target(latest) = Installed
      BY <2>1, <2>2, Places
    <2> QED
      BY <2>1, <2>3 DEF QuietInv, InodeOf, Serving
  <1> QED
    BY <1>1, InstallerInvariance, PTL

\* Every client, agent and installer of a workspace means the same socket and
\* lock file, whoever started it and from where.
THEOREM OneMeetingPlace == Spec => []OneRendezvous
  <1>1. InstallerInv => OneRendezvous
    <2> SUFFICES ASSUME InstallerInv, AbsoluteDirectories
                 PROVE  \A c \in Processes : Located(c) =>
                            /\ \A d \in Processes : Located(d) => Rendezvous(proc[c]) = Rendezvous(proc[d])
                            /\ \A a \in agents : /\ a.socket = Rendezvous(proc[c]).socket
                                                 /\ a.pid = Rendezvous(proc[c]).pid
      BY DEF OneRendezvous
    <2>1. ProcInv /\ AgentInv
      BY DEF InstallerInv
    <2>2. setup \in Setups /\ Absolute(setup)
      BY <2>1 DEF ProcInv, Absolute, AbsoluteDirectories
    <2>3. \A c \in Processes : Located(c) => Rendezvous(proc[c]) = Rendezvous(Here(setup))
      BY <2>1, <2>2, OnePlace DEF ProcInv
    <2> QED
      BY <2>1, <2>3 DEF AgentInv
  <1> QED
    BY <1>1, InstallerInvariance, PTL

\* The wrapper script looks for the helper where the installer has put it.
THEOREM WrapperAgrees == Spec => []WrapperFindsInstall
  <1>1. InstallerInv => WrapperFindsInstall
    <2> SUFFICES ASSUME InstallerInv, latest # None, PlainEnvironment, NEW g \in Getters
                 PROVE  HelperBin(g) = Target(latest)
      BY DEF WrapperFindsInstall
    <2>1. ProcInv
      BY DEF InstallerInv
    <2>2. latest \in Installers /\ Located(latest)
      BY <2>1 DEF ProcInv, Located
    <2>3. Target(latest) = Installed /\ HelperBin(g) = Sought
      BY <2>1, <2>2, Places
    <2>4. setup \in Setups /\ Plain(setup) /\ Absolute(setup)
      BY <2>1 DEF ProcInv, Absolute, AbsoluteDirectories, Plain, PlainEnvironment
    <2>5. Reached(Here(setup), setup)
      <3>1. Ready(latest, setup) = Here(setup)
        BY <2>2, <2>4, BegunFacts, ProcessFacts
      <3> QED
        BY <2>4, <3>1, ReadyReached
    <2>6. Sought = Installed
      BY <2>4, <2>5, PlainDestination, PlainHelperBin DEF Sought, Installed, User
    <2> QED
      BY <2>3, <2>6
  <1> QED
    BY <1>1, InstallerInvariance, PTL

=============================================================================
