------------------------------ MODULE MCCodec ------------------------------
(* Packets, instantiated for TLC with bytes of three values: 16-bit,       *)
(* 32-bit and 64-bit numbers end at 8, 80 and 6560, and the strings fill   *)
(* their arrays, end before, or go on after a zero.                        *)
EXTENDS Codec

StatsOf(temp, total, free) ==
    [cpu_usage |-> 1, ram_usage |-> 2, cpu_temp |-> temp, ram_total |-> total,
     ram_free |-> free]
MCStats == {StatsOf(5, 81, 6560), StatsOf(8, 4711, 2)}

GitOf(modified, untracked, branch) ==
    [modified_files |-> modified, untracked_files |-> untracked,
     branch_name |-> branch]
MCGit == {GitOf(47, 9, <<2, 1, 2>>), GitOf(80, 1, <<1, 0, 2>>)}

NotifOf(app, summary, body) ==
    [app_name |-> app, summary |-> summary, body |-> body]
MCNotif == {NotifOf(<<1, 2>>, <<2, 2, 0>>, <<1, 1, 1>>),
            NotifOf(<<0, 2>>, <<2, 0, 1>>, <<0, 0, 0>>)}
=============================================================================
