------------------------------ MODULE MCWsHub -------------------------------
(* Small instances of the hub: binary digits, so that counts of one digit
   are too short, counts of two are read and counts of three are cut. *)
EXTENDS WsHub, TLC

\* The hub treats its connections alike.
Alike == Permutations(Conn)

\* Klines of a symbol that only the larger count reaches, counts on both
\* sides of what parse understands, the indices, a tick, a ban list, and the
\* commands that read what was written.
MarketFrames ==
         [kind : {"snapshot", "all_kline_1m", "get_position", "status",
                  "next_index_1m", "next_index_special_1m"}]
    \cup [kind : {"kline_1m", "kline_1m_agg"}, index : {2}, data : {"k"}]
    \cup [kind : {"tick"}, ts : {1}, data : {"k"}]
    \cup [kind : {"symbol_count"}, count : {1, 2, 7}]
    \cup [kind : {"ban_symbols"}, data : {"k"}]
=============================================================================
