------------------------------ MODULE MCHubHistory ----------------------------
(* Small instances of the hub: binary digits, so that counts of one digit
   are too short, counts of two are read and counts of three are cut. *)
EXTENDS HubHistory, TLC

\* The hub treats its connections alike.
Alike == Permutations(Conn)

\* Two writers of positions, timestamps out of order and repeated, while
\* collectors ask for work and others announce their counts.
HistoryFrames ==
         [kind : {"position"}, ts : {0, 1, 2}, data : {Empty, "k"}]
    \cup [kind : {"next_index_1m"}]
    \cup [kind : {"symbol_count"}, count : {1, 2, 3}]
=============================================================================
