---------------------------- MODULE MCInstaller -----------------------------
(* Versions of the helper, two clients, and the ways to say where things
   are. *)
EXTENDS Installer

MCHome == "HOME" :> <<"/", "home">>

MCEnvironments ==
    {MCHome,
     "TMPDIR" :> <<"/", "var">>,
     ("TEST_TMPDIR" :> <<"/", "test">>) @@ MCHome,
     ("XDG_CACHE_HOME" :> <<"/", "xdg">>) @@ MCHome,
     (WorkdirEnv :> <<"/", "workdir">>)
        @@ ("CREDENTIAL_HELPER_AGENT_SOCKET" :> <<"agent.sock">>) @@ MCHome,
     (WorkdirEnv :> <<"relative">>) @@ MCHome,
     (WorkdirEnv :> <<>>) @@ MCHome,
     (WorkspaceEnv :> <<"/", "other">>) @@ MCHome,
     (WorkspaceEnv :> <<>>) @@ ("CREDENTIAL_HELPER_BIN" :> <<"/", "bin", "helper">>) @@ MCHome,
     (WorkdirEnv :> <<"relative">>) @@ ("CREDENTIAL_HELPER_BIN" :> <<"/", "bin", "helper">>) @@ MCHome,
     "TEST_TMPDIR" :> <<"relative">>,
     ("CREDENTIAL_HELPER_BIN" :> <<"/", "bin", "helper">>)
        @@ ("CREDENTIAL_HELPER_AGENT_SOCKET" :> <<"%tmp%", "agent.sock">>)
        @@ ("CREDENTIAL_HELPER_AGENT_PID" :> <<"~", "agent.pid">>) @@ MCHome,
     ("CREDENTIAL_HELPER_INSTALLER_DESTINATION" :> <<"%workspace%", "tools", "helper">>) @@ MCHome}

MCSetups == [env : MCEnvironments, linkable : BOOLEAN, writable : BOOLEAN]

MCSymmetry == Permutations(Getters)

=============================================================================
