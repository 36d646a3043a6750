---------------------------- MODULE MCTimedTransfer ----------------------------
(* TimedTransfer for TLC: a small server configuration and some files.        *)
EXTENDS TimedTransfer

Defaults == [item \in {"idle_data_timeout", "connect_timeout", "accept_timeout",
                       "max_upload_rate", "max_download_rate"} |->
               IF item \in Rates THEN 0 ELSE 1]

Line(i, t, v) == [item |-> i, text |-> t, n |-> v]
Up == "max_upload_rate"
Down == "max_download_rate"

Lines == {Line(Up, "number", 3), Line(Up, "number", 0), Line(Up, "none", 0),
          Line(Down, "word", 0), Line(Down, "number", -1), Line(Down, "number", 99),
          Line("idle_data_timeout", "number", 0), Line("connect_timeout", "number", 0),
          Line("accept_timeout", "number", 0), Line("pasv_mode", "number", 1)}

ShortFiles == {<<>>} \cup {<<l>> : l \in Lines} \cup {<<l, m>> : l, m \in Lines}
=============================================================================
