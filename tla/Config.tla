-------------------------------- MODULE Config --------------------------------
(***************************************************************************)
(* config.cpp: the settings the server starts with.  The file is read line *)
(* by line over the defaults of config.h; what a line's number becomes is  *)
(* decided by operator>> for unsigned int.  Addresses and the two switches *)
(* that nothing reads (pasv_mode, port_mode) are left out.                 *)
(***************************************************************************)
EXTENDS Integers, Sequences

CONSTANTS
  Default,  \* item -> its initialiser in config.h
  MinRate,  \* 1024*100: the least transfer rate a file can ask for
  Modulus,  \* 2^32, the values of unsigned int
  Files     \* files the server is started with: sequences of lines

Items == DOMAIN Default
Rates == {"max_upload_rate", "max_download_rate"}

\* A line names an item, or something that is none, and gives a value.
IsLine(l) == l.text \in {"none", "word", "number"} /\ l.n \in Int

ASSUME ConfigAssumption ==
  /\ Modulus \in Nat \ {0} /\ MinRate \in 0 .. Modulus - 1
  /\ Default \in [Items -> 0 .. Modulus - 1] /\ Rates \subseteq Items
  /\ \A r \in Rates : Default[r] = 0 \/ Default[r] >= MinRate
  /\ \A f \in Files : /\ f \in Seq({f[i] : i \in DOMAIN f})
                       /\ \A i \in DOMAIN f : IsLine(f[i])

VARIABLES
  conf,  \* config
  rest,  \* lines of the file still to be read
  file   \* history: the file, until the settings are used

loaded == <<conf, rest, file>>

ConfigInit ==
  /\ conf = Default
  /\ file \in Files /\ rest = file

\* A missing value leaves the variable alone and a word sets it to 0; a minus
\* sign negates in unsigned arithmetic, and what is too large becomes the
\* largest value.
Extract(old, l) ==
  CASE l.text = "none" -> old
    [] l.text = "word" -> 0
    [] l.text = "number" ->
         IF -Modulus < l.n /\ l.n < Modulus THEN l.n % Modulus ELSE Modulus - 1

BugRaise(item, v) ==  \* mutant: the floor is for uploads only
  IF item = "max_upload_rate" /\ v < MinRate THEN MinRate ELSE v

Raise(item, v) == IF item \in Rates /\ v < MinRate THEN MinRate ELSE v

\* parse_config(): comments, empty lines and unknown items change nothing.
ParseConfig ==
  /\ rest # <<>>
  /\ LET l == Head(rest) IN
       conf' = IF l.item \in Items
                 THEN [conf EXCEPT ![l.item] = Raise(l.item, Extract(@, l))]
                 ELSE conf
  /\ rest' = Tail(rest)
  /\ UNCHANGED file
-----------------------------------------------------------------------------
\* What a file stands for, without reading it in order: an item has the value
\* of its last line that gives one, and a rate that is named is raised.
Naming(item) == {i \in DOMAIN file : file[i].item = item}
Giving(item) == {i \in Naming(item) : file[i].text # "none"}
LastOf(S) == CHOOSE i \in S : \A j \in S : j <= i
Meant(item) ==
  LET v == IF Giving(item) = {} THEN Default[item]
           ELSE Extract(0, file[LastOf(Giving(item))])
  IN IF item \in Rates /\ Naming(item) # {} /\ v < MinRate THEN MinRate ELSE v
=============================================================================
