------------------------------- MODULE MCSession -------------------------------
(* Session for TLC: the lines each run lets the client send.                 *)
EXTENDS Session

CONSTANTS u1, u2, f1, f2

L(c, a) == [cmd |-> c, arg |-> a]
Enter(u) == {L("USER", u), L("PASS", u)}

LoginLines == Enter(u1) \cup Enter(u2) \cup Enter(Root)
  \cup {L("PORT", None), L("PASV", None), L("REST", 1), L("REST", None), L("RNFR", f1),
        L("RNTO", f2), L("LIST", None), L("DELE", f1), L("SITE", None), L("QUIT", None), L(None, None)}

TransferLines == Enter(u1)
  \cup {L("PORT", None), L("PASV", None), L("REST", 1), L("REST", -1), L("RETR", f1),
        L("STOR", f2), L("LIST", None), L("ABOR", None)}

AbortLines == Enter(u1)
  \cup {L("PASV", None), L("RETR", f1), L("STOR", f1), L("LIST", None), L("ABOR", None)}
=============================================================================
