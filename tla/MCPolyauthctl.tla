--------------------------- MODULE MCPolyauthctl ---------------------------
(* Small instances of Polyauthctl for TLC.                                 *)
EXTENDS Polyauthctl

CONSTANTS alice, root, path, disk, media, m1, m2, k1, k2, pw, pin, salt, shell

Short == [s \in Secrets |-> s]

Plain(op, me) ==
    [op |-> op, me |-> me, username |-> None, config_file |-> None,
     password |-> None, update_as_needed |-> FALSE, intermediate |-> None,
     secondary_pw |-> None, params |-> None, dir |-> None, cmd |-> None]

SetupOf(me, file) ==
    [Plain("setup", me) EXCEPT !.username = alice, !.config_file = file,
                               !.password = m1, !.intermediate = k1]

AddOf(key) == [Plain("add", alice) EXCEPT !.intermediate = key, !.secondary_pw = pw]

Commands ==
    {SetupOf(alice, None),
     [SetupOf(alice, path) EXCEPT !.intermediate = k2],
     [SetupOf(alice, None) EXCEPT !.username = None],
     AddOf(k1),
     AddOf(k2),
     [AddOf(k1) EXCEPT !.password = m2],
     [AddOf(k2) EXCEPT !.password = m2, !.config_file = path],
     [Plain("set-home-mount", alice) EXCEPT !.params = disk],
     [Plain("set-pre-mount", alice) EXCEPT !.params = disk, !.dir = media],
     [Plain("set-pre-mount", alice) EXCEPT !.params = disk, !.dir = media,
                                           !.config_file = path],
     [Plain("set-session", alice) EXCEPT !.cmd = shell],
     Plain("reset", alice),
     Plain("authorize", alice),
     [Plain("authorize", alice) EXCEPT !.username = alice, !.config_file = path],
     [Plain("authorize", alice) EXCEPT !.config_file = path],
     [Plain("inspect", alice) EXCEPT !.update_as_needed = TRUE],
     Plain("info", alice)}

\* The administrator sets alice up.
ByRoot == {SetupOf(root, None), [SetupOf(root, None) EXCEPT !.intermediate = k2]}

Main == NewMain(m1, k1, salt, salt)
Configured ==
    [session_command |-> shell,
     auth_data |-> [main |-> Main, auth |-> <<NewSecondary(k1, pin, salt)>>],
     mountpoints |-> [home |-> disk, additional |-> <<>>]]

Contents == {Missing, Configured, [Configured EXCEPT !.auth_data = Undecodable]}
NoFile == {Missing}
============================================================================
