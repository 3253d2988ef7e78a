------------------------------ MODULE FtpPath ------------------------------
(***************************************************************************)
(* The working directory of an FTP session (esp32/ftp/ftp.c): ftp_path is  *)
(* edited in place by CWD and CDUP, and by every command with a file       *)
(* parameter, which appends the parameter, uses the path and then takes    *)
(* the parameter off again with ftp_return_to_previous_path.               *)
(*                                                                         *)
(* A path is a sequence of characters, because the code counts characters; *)
(* the alphabet is the separator and one letter.  Positions are C's plus 1.*)
(***************************************************************************)
EXTENDS Naturals, Sequences

CONSTANTS MaxParam,  \* bound: characters of a parameter
          MaxPath    \* bound: characters of a path

ASSUME PathConstants == MaxParam \in Nat /\ MaxPath \in Nat

VARIABLE path

Slash == "/"
Root == <<Slash>>
Params == UNION {[1..n -> {Slash, "a"}] : n \in 0..MaxParam}

IsRoot(p) == Len(p) = 1
EndsInSlash(p) == Len(p) > 0 /\ p[Len(p)] = Slash
IsAbsolute(dir) == Len(dir) > 0 /\ dir[1] = Slash
Cut(p, n) == SubSeq(p, 1, n)

OpenChild(pwd, dir) ==
  LET p == IF IsAbsolute(dir) THEN dir
           ELSE IF Len(pwd) > 1 THEN pwd \o Root \o dir ELSE pwd \o dir
  IN  IF Len(p) > 1 /\ EndsInSlash(p) THEN Cut(p, Len(p) - 1) ELSE p

\* Cuts the path before its last separator; the path always has one.
CloseChild(pwd) ==
  LET last == CHOOSE i \in 1..Len(pwd) : pwd[i] = Slash /\ \A j \in i+1..Len(pwd) : pwd[j] # Slash
  IN  IF last = 1 THEN Root ELSE Cut(pwd, last - 1)

ReturnWithoutSeparator(pwd, dir) ==
  LET newlen == Len(pwd) - Len(dir) IN
  IF newlen = 0 THEN Root ELSE Cut(pwd, newlen)

ReturnToPreviousPath(pwd, dir) ==
  LET newlen == Len(pwd) - Len(dir) IN
  IF newlen > 2 /\ pwd[newlen] = Slash THEN Cut(pwd, newlen - 1)
  ELSE IF newlen = 0 THEN Root ELSE Cut(pwd, newlen)

\* newlen is unsigned in the code: an absolute parameter that ends in a separator
\* makes it wrap, and what the function then does is outside this model.
Wraps(dir) == IsAbsolute(dir) /\ EndsInSlash(dir) /\ Len(dir) > 1

-----------------------------------------------------------------------------
PathInit == path = Root

Cwd ==
  \E dir \in Params, opens \in BOOLEAN :
    LET p == OpenChild(path, dir) IN
    /\ Len(p) <= MaxPath
    /\ path' = IF p = Root \/ opens THEN p ELSE CloseChild(p)

Cdup == path' = CloseChild(path)

\* SIZE, MDTM, RETR, STOR, DELE, RMD, MKD, RNFR and RNTO
FileCommand ==
  \E dir \in Params :
    /\ ~Wraps(dir)
    /\ path' = ReturnToPreviousPath(OpenChild(path, dir), dir)

PathNext == Cwd \/ Cdup \/ FileCommand

PathSpec == PathInit /\ [][PathNext]_path

-----------------------------------------------------------------------------
\* Only a CWD with a doubled separator at its end leaves another kind of path.
Proper(p) == IsRoot(p) \/ ~EndsInSlash(p)

\* What only borrows the working directory gives it back as it was: a command with a
\* relative file name, whatever separators the name holds (ftp_return_to_previous_path
\* undoes ftp_open_child although it only knows the parameter's length), and a CWD to a
\* simple name that the file system refuses (ftp_close_child undoes it).
PathRestored ==
  Proper(path) => \A dir \in Params :
    /\ ~IsAbsolute(dir) => ReturnToPreviousPath(OpenChild(path, dir), dir) = path
    /\ Len(dir) > 0 /\ (\A i \in 1..Len(dir) : dir[i] # Slash) => CloseChild(OpenChild(path, dir)) = path
=============================================================================
