---------------------------- MODULE MCServerTab ----------------------------
(***************************************************************************)
(* A tab of the server browser with Servers numbers for two addresses, so  *)
(* that Steam can give two numbers to one server, and filter settings that *)
(* tell the two answers of a server apart.                                 *)
(***************************************************************************)
EXTENDS ServerTab, TLC

Answer(players) ==
    [NoInfo EXCEPT !.m_nPlayers = players, !.m_nMaxPlayers = 4, !.m_nPing = 40]

MCInfos == {Answer(0), Answer(4)}

NoFilter ==
    [NoEmpty |-> FALSE, NoFull |-> FALSE, NoPassword |-> FALSE,
     HasAssociatedSteamAccount |-> FALSE, ping |-> 0, Secure |-> "all",
     map |-> {}]

MCFilterSettings == {NoFilter, [NoFilter EXCEPT !.NoEmpty = TRUE],
                     [NoFilter EXCEPT !.NoFull = TRUE]}

MCSymmetry == Permutations(Servers) \cup Permutations(Addresses)
                \cup Permutations(Rows)
=============================================================================
