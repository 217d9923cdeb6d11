----------------------------- MODULE Installer ------------------------------
(***************************************************************************)
(* `bazel run //installer` (cmd/installer/installer.go) while Bazel calls  *)
(* the helper through the wrapper script: the installer asks the agent to  *)
(* stop, replaces the binary by a hard link or a copy without waiting for  *)
(* the agent's end, and does not take the lock that would keep others from *)
(* doing the same.                                                         *)
(*                                                                         *)
(* A file is a name for an inode.  An agent runs from the inode that its   *)
(* client was started from.                                                *)
(***************************************************************************)
EXTENDS Locate, SequencesExt

CONSTANTS
    Installers,  \* `bazel run` processes; each installs a version of its own
    Getters,     \* `get` processes that Bazel starts
    None,        \* no process
    Setups       \* [env, linkable, writable]: the user's environment, whether
                 \* the source is on the destination's device, and whether
                 \* the user may write to it (Bazel's outputs are read-only)

ASSUME InstallerAssumption ==
    /\ IsFiniteSet(Installers)
    /\ Installers \cap Getters = {}
    /\ None \notin Installers
    /\ \A s \in Setups : /\ \A var \in DOMAIN s.env : s.env[var] \in Seq(STRING)
                        /\ s.linkable \in BOOLEAN /\ s.writable \in BOOLEAN

Workspace == <<"/", "workspace">>

VARIABLES
    setup,   \* the member of Setups
    files,   \* path -> inode, for the paths that exist
    inodes,  \* the inodes ever created
    proc,    \* process -> its environment and working directory
    pc,      \* process -> where it is
    open,    \* installer -> the inodes it copies from and to
    agents,  \* the running agents: [socket, pid, inode]
    stopping,\* the agents that have a shutdown request
    quiet,   \* history: nothing else ran during any installation, and neither
             \* of the steps failed whose failure it ignores, the shutdown
             \* request and the removal of the old binary
    latest   \* history: the installer that succeeded last, None if another
             \* one has begun since

vars == <<setup, files, inodes, proc, pc, open, agents, stopping, quiet, latest>>

Processes == Installers \cup Getters

Inode(content, executable, writable) ==
    [content |-> content, executable |-> executable, writable |-> writable]

Source(i) == <<"/", "bazel-out", i>>
InodeOf(path) == inodes[files[path]]

\* What `bazel run` and Bazel itself start: runfiles or workspace.
Started(c, s) ==
    IF c \in Getters THEN Process(s.env, Workspace)
    ELSE Process(With(s.env, "BUILD_WORKSPACE_DIRECTORY", Workspace), <<"/", "runfiles">>)

Destination(p) ==
    LookupPathEnv(p, "CREDENTIAL_HELPER_INSTALLER_DESTINATION", CredentialHelper(p), FALSE)

\* The helper is neither sought nor installed among Bazel's outputs.
ASSUME DestinationAssumption ==
    \A s \in Setups, i, j \in Installers :
        LET p == SetupEnvironment(Started(i, s)) IN
        Source(j) \notin {From(p.cwd, Destination(p)),
                          From(Workspace, helper_bin(Process(s.env, Workspace)))}

\* The rendezvous of a process, as the kernel resolves it.
Rendezvous(p) ==
    [socket |-> From(p.cwd, AgentPaths(p).socket), pid |-> From(p.cwd, AgentPaths(p).pid)]

Target(i) == From(proc[i].cwd, Destination(proc[i]))

Busy(c) == pc[c] \notin {"start", "exit0", "exit1"}

\* Types of all the variables.
TypeOK ==
    /\ setup \in Setups
    /\ \A path \in DOMAIN files : IsAbs(path) /\ files[path] \in DOMAIN inodes
    /\ \A n \in DOMAIN inodes : inodes[n].content \in Installers \cup {None}
    /\ pc \in [Processes -> {"start", "shutdown", "remove", "link", "open", "create", "copy",
                             "dial", "exit0", "exit1"}]
    /\ \A i \in Installers : pc[i] = "create" => open[i].from \in DOMAIN inodes
    /\ \A i \in Installers : pc[i] = "copy" => open[i].to \in DOMAIN inodes
    /\ \A a \in agents : a.inode \in DOMAIN inodes /\ IsAbs(a.socket) /\ IsAbs(a.pid)
    /\ stopping \subseteq agents
    /\ quiet \in BOOLEAN
    /\ latest \in Installers \cup {None}

\* Bazel has built every source; nothing is installed.
Init ==
    LET built == SetToSeq(Installers) IN
    /\ setup \in Setups
    /\ files = [path \in {Source(i) : i \in Installers} |->
                    CHOOSE n \in DOMAIN built : Source(built[n]) = path]
    /\ inodes = [n \in DOMAIN built |-> Inode(built[n], TRUE, setup.writable)]
    /\ proc = [c \in Processes |-> Started(c, setup)]
    /\ pc = [c \in Processes |-> "start"]
    /\ open = [i \in Installers |-> [from |-> 0, to |-> 0]]
    /\ agents = {}
    /\ stopping = {}
    /\ quiet = TRUE
    /\ latest = None

Goto(c, label) == pc' = [pc EXCEPT ![c] = label]

\* A process starts: the others are at rest, or all of them only read.
Enter(c, q, label) ==
    /\ Goto(c, label)
    /\ proc' = [proc EXCEPT ![c] = q]
    /\ quiet' = (quiet /\ \A d \in Processes : Busy(d) => {c, d} \subseteq Getters)

-----------------------------------------------------------------------------
(***************************************************************************)
(* The installer                                                           *)
(***************************************************************************)

\* root.Run without arguments: InstallerProcess up to install.
Begin(i) ==
    /\ pc[i] = "start"
    /\ Source(i) \in DOMAIN files
    /\ SetsUp(proc[i])
    /\ Enter(i, SetupEnvironment(proc[i]), "shutdown")
    /\ latest' = None
    /\ UNCHANGED <<setup, files, inodes, open, agents, stopping>>

\* No source, no workdir, or MkdirAll cannot make the default destination's
\* directory.
BeginFails(i) ==
    /\ pc[i] = "start"
    /\ Goto(i, "exit1")
    /\ UNCHANGED <<setup, files, inodes, proc, open, agents, stopping, quiet, latest>>

Runs(path) == path \in DOMAIN files /\ InodeOf(path).executable /\ InodeOf(path).content # None

AttemptAgentShutdownUninherited(i) ==
    /\ pc[i] = "shutdown"
    /\ Goto(i, "remove")
    /\ stopping' = stopping \cup
          {a \in agents :
              a.socket = Rendezvous(SetupEnvironment(Process(setup.env, proc[i].cwd))).socket}
    /\ UNCHANGED <<setup, files, inodes, proc, open, agents, quiet, latest>>

\* The agents that the `agent-shutdown` of the old binary, if it runs, dials.
Addressed(i) ==
    {a \in agents : Runs(Target(i)) /\ a.socket = Rendezvous(SetupEnvironment(proc[i])).socket}

\* The agent has answered the request; its end is a step of its own.
AttemptAgentShutdown(i) ==
    /\ pc[i] = "shutdown"
    /\ Goto(i, "remove")
    /\ stopping' = stopping \cup Addressed(i)
    /\ UNCHANGED <<setup, files, inodes, proc, open, agents, quiet, latest>>

\* The request may fail; the installer says so and goes on.
ShutdownFails(i) ==
    /\ pc[i] = "shutdown"
    /\ Addressed(i) # {}
    /\ Goto(i, "remove")
    /\ quiet' = FALSE
    /\ UNCHANGED <<setup, files, inodes, proc, open, agents, stopping, latest>>

RemoveNothing(i) ==
    /\ pc[i] = "remove"
    /\ Goto(i, "link")
    /\ UNCHANGED <<setup, files, inodes, proc, open, agents, stopping, quiet, latest>>

RemoveOld(i) ==
    /\ pc[i] = "remove"
    /\ Goto(i, "link")
    /\ files' = [path \in DOMAIN files \ {Target(i)} |-> files[path]]
    /\ UNCHANGED <<setup, inodes, proc, open, agents, stopping, quiet, latest>>

Succeed(i) == Goto(i, "exit0") /\ latest' = i

\* os.Remove may be refused; the installer says so and goes on.
RemoveFails(i) ==
    /\ pc[i] = "remove"
    /\ Target(i) \in DOMAIN files
    /\ Goto(i, "link")
    /\ quiet' = FALSE
    /\ UNCHANGED <<setup, files, inodes, proc, open, agents, stopping, latest>>

\* os.Link replaces nothing and does not cross devices.
Link(i) ==
    /\ pc[i] = "link"
    /\ IF setup.linkable /\ Source(i) \in DOMAIN files /\ Target(i) \notin DOMAIN files
       THEN files' = With(files, Target(i), files[Source(i)]) /\ Succeed(i)
       ELSE Goto(i, "open") /\ UNCHANGED <<files, latest>>
    /\ UNCHANGED <<setup, inodes, proc, open, agents, stopping, quiet>>

OpenForgotten(i) ==
    /\ pc[i] = "open"
    /\ Goto(i, "create")
    /\ UNCHANGED <<setup, files, inodes, proc, open, agents, stopping, quiet, latest>>

Open(i) ==
    /\ pc[i] = "open"
    /\ IF Source(i) \in DOMAIN files
       THEN Goto(i, "create") /\ open' = [open EXCEPT ![i].from = files[Source(i)]]
       ELSE Goto(i, "exit1") /\ UNCHANGED open
    /\ UNCHANGED <<setup, files, inodes, proc, agents, stopping, quiet, latest>>

\* The kernel refuses to write to a program that is running.
Truncatable(path) ==
    InodeOf(path).writable /\ \A a \in agents : a.inode # files[path]

\* os.Create truncates what is there, whatever else names it, and gives a new
\* file the mode 0666.
Create(i) ==
    /\ pc[i] = "create"
    /\ \/ /\ Target(i) \in DOMAIN files
          /\ Truncatable(Target(i))
          /\ inodes' = [inodes EXCEPT ![files[Target(i)]].content = None]
          /\ UNCHANGED files
       \/ /\ Target(i) \notin DOMAIN files
          /\ inodes' = Append(inodes, Inode(None, FALSE, TRUE))
          /\ files' = With(files, Target(i), Len(inodes'))
    /\ open' = [open EXCEPT ![i].to = files'[Target(i)]]
    /\ Goto(i, "copy")
    /\ UNCHANGED <<setup, proc, agents, stopping, quiet, latest>>

\* No directory, no space, or a file that cannot be written.
CreateFails(i) ==
    /\ pc[i] = "create"
    /\ Goto(i, "exit1")
    /\ UNCHANGED <<setup, files, inodes, proc, open, agents, stopping, quiet, latest>>

\* io.Copy writes to the file it opened, wherever that is by now.
Copy(i) ==
    /\ pc[i] = "copy"
    /\ inodes' = [inodes EXCEPT ![open[i].to].content = inodes[open[i].from].content]
    /\ Succeed(i)
    /\ UNCHANGED <<setup, files, proc, open, agents, stopping, quiet>>

\* io.Copy fails: what is at the destination is not the whole program.
CopyFails(i) ==
    /\ pc[i] = "copy"
    /\ Goto(i, "exit1")
    /\ UNCHANGED <<setup, files, inodes, proc, open, agents, stopping, quiet, latest>>

-----------------------------------------------------------------------------
(***************************************************************************)
(* `get` through the wrapper script, and the agent that it launches        *)
(***************************************************************************)
HelperBin(g) == From(Workspace, helper_bin(Started(g, setup)))

Exec(g) ==
    /\ pc[g] = "start"
    /\ IF Runs(HelperBin(g)) /\ SetsUp(Wrapper(proc[g]))
       THEN Enter(g, SetupEnvironment(Wrapper(proc[g])), "dial")
       ELSE Goto(g, "exit1") /\ UNCHANGED <<proc, quiet>>
    /\ UNCHANGED <<setup, files, inodes, open, agents, stopping, latest>>

\* LaunchAgentProcess starts what is at the client's path now; the child
\* inherits environment and working directory and sets itself up again.  It
\* is refused if its lock is taken.
LaunchAgent(g) ==
    LET here == Rendezvous(SetupEnvironment(proc[g]))
        launched == [socket |-> here.socket, pid |-> here.pid, inode |-> files[HelperBin(g)]]
    IN  IF \E a \in agents : a.pid = here.pid THEN agents ELSE agents \cup {launched}

\* The client launches an agent, dials and exits.  An agent that is stopping
\* may have closed its socket already and still hold the lock.
Get(g) ==
    LET answering == {a \in agents' : a.socket = Rendezvous(proc[g]).socket} IN
    /\ pc[g] = "dial"
    /\ agents' = IF Runs(HelperBin(g)) THEN LaunchAgent(g) ELSE agents
    /\ \/ Runs(HelperBin(g)) /\ answering # {} /\ Goto(g, "exit0")
       \/ (Runs(HelperBin(g)) => answering \subseteq stopping) /\ Goto(g, "exit1")
    /\ UNCHANGED <<setup, files, inodes, proc, open, stopping, quiet, latest>>

\* An agent ends, asked to or idle; only then its lock is free.
AgentExits(a) ==
    /\ agents' = agents \ {a}
    /\ stopping' = stopping \ {a}
    /\ UNCHANGED <<setup, files, inodes, proc, pc, open, quiet, latest>>

Next ==
    \/ \E i \in Installers :
        \/ Begin(i) \/ BeginFails(i) \/ AttemptAgentShutdown(i) \/ ShutdownFails(i)
        \/ RemoveOld(i) \/ RemoveFails(i) \/ Link(i) \/ Open(i)
        \/ Create(i) \/ CreateFails(i) \/ Copy(i) \/ CopyFails(i)
    \/ \E g \in Getters : Exec(g) \/ Get(g)
    \/ \E a \in agents : AgentExits(a)

Spec == Init /\ [][Next]_vars

-----------------------------------------------------------------------------
(***************************************************************************)
(* Properties                                                              *)
(***************************************************************************)

\* The installer hands its source out as a hard link and writes through the
\* destination's name: still, a source keeps its content as long as
\* installations take turns and none is refused the removal of the old
\* binary, and in any case if it is read-only.
SourcesIntact ==
    (quiet \/ ~setup.writable) =>
        \A i \in Installers :
            Source(i) \in DOMAIN files /\ InodeOf(Source(i)).content = i

Directories == {WorkdirEnv, "TEST_TMPDIR", "XDG_CACHE_HOME", "HOME", "TMPDIR"}

\* The directories that the environment names are absolute paths, and an
\* empty workspace, which the wrapper and the helper read differently, is not
\* among them.
AbsoluteDirectories ==
    /\ \A var \in Directories \cap DOMAIN setup.env : IsAbs(setup.env[var])
    /\ WorkspaceEnv \in DOMAIN setup.env => setup.env[WorkspaceEnv] # <<>>

\* An installation that succeeded with nothing else running, and with its
\* shutdown request and its removal not refused, has replaced the helper as a
\* whole: its own version is at the destination, and every agent of an earlier
\* one that still runs has been told to stop, if both compute the same paths
\* (attemptAgentShutdown, Remove, hardlinkOrCopy).  Whether it ever stops is
\* the agent's part.
InstallReplaces ==
    (quiet /\ latest # None) =>
        /\ Target(latest) \in DOMAIN files
        /\ InodeOf(Target(latest)).content = latest
        /\ AbsoluteDirectories => \A a \in agents \ stopping : inodes[a.inode].content = latest

Located(c) == pc[c] \notin {"start", "exit1"}

\* expandPath omits the workdir because "every process chdir's into the
\* workdir early": whoever started it and from where, every client, agent
\* and installer of the workspace means the same socket and lock file, if the
\* user's directories are absolute.
OneRendezvous ==
    AbsoluteDirectories =>
        \A c \in Processes : Located(c) =>
            /\ \A d \in Processes : Located(d) => Rendezvous(proc[c]) = Rendezvous(proc[d])
            /\ \A a \in agents : /\ a.socket = Rendezvous(proc[c]).socket
                                 /\ a.pid = Rendezvous(proc[c]).pid

\* No variable that only one of the wrapper and the installer understands.
PlainEnvironment ==
    /\ AbsoluteDirectories
    /\ "HOME" \in DOMAIN setup.env
    /\ DOMAIN setup.env \cap {"XDG_CACHE_HOME", "CREDENTIAL_HELPER_INSTALLER_DESTINATION"} = {}
    /\ "CREDENTIAL_HELPER_BIN" \in DOMAIN setup.env =>
        IsAbs(setup.env["CREDENTIAL_HELPER_BIN"])

\* The README calls the default destination "the path used by the shell
\* wrapper": two programs compute it, from different working directories.
WrapperFindsInstall ==
    (latest # None /\ PlainEnvironment) => \A g \in Getters : HelperBin(g) = Target(latest)

\* The README says that running the installer will "add the binary to your
\* system": the wrapper can then execute it.
InstalledRuns == (quiet /\ latest # None) => Runs(Target(latest))

=============================================================================
