---------------------------- MODULE DimacsParser ----------------------------
(***************************************************************************)
(* dimacs_dnf::parse: reads one party's DIMACS file, line by line and      *)
(* token by token, into an array of exactly CUBES cubes, or throws.        *)
(*                                                                         *)
(* A file is a sequence of lines, and a line is what parse looks at: its   *)
(* first character tells its kind, and operator>> its tokens.  A token is  *)
(* an int, or one that operator>> cannot read into an int, which sets the  *)
(* failbit and ends the loop over the line.                                *)
(***************************************************************************)
EXTENDS DnfCubes, Sequences

CONSTANTS
    FILES,      \* the files that the path may name
    NoFile,     \* the path names no readable file
    Junk,       \* a token that is no number
    Huge        \* a positive number that no int holds

ASSUME NumberedVars == Vars = 1 .. VARS

Unreadable == {Junk, Huge}
Tokens == Int \cup Unreadable

SkipLine == [kind : {"skip"}]           \* blank, or a comment
HeaderLine == [kind : {"p"}, dnf : BOOLEAN, vars : Tokens, cubes : Tokens]
LiteralLine == [kind : {"literals"}, tokens : Seq(Tokens)]
Lines == SkipLine \cup HeaderLine \cup LiteralLine

ASSUME TokensAssumption == Junk \notin Int /\ Huge \notin Int /\ Junk # Huge
ASSUME FilesAssumption == FILES \ {NoFile} \subseteq Seq(Lines)

MaxInt == 2147483647

(***************************************************************************)
(* What operator>> leaves in an int that was 0, when the token is read, is *)
(* missing or no number, or is a number that the int cannot hold.          *)
(***************************************************************************)
extracted(tok) ==
    IF tok = Huge THEN MaxInt ELSE IF tok = Junk THEN 0 ELSE tok

Abs(n) == IF n > 0 THEN n ELSE -n
-----------------------------------------------------------------------------
VARIABLES
    pc,                     \* "open", "line", "token", "returned", "thrown"
    file,                   \* the file at path
    next,                   \* how many of its lines are behind
    rest,                   \* what is left of the line in iss
    dnf,
    have_header, file_vars, cube_count,
    current, literals_in_current,
    error                   \* what was thrown

headerVars == <<have_header, file_vars>>
cubeVars == <<dnf, cube_count, current, literals_in_current>>
vars == <<pc, file, next, rest, headerVars, cubeVars, error>>

Init ==
    /\ pc = "open"
    /\ file \in FILES
    /\ next = 0 /\ rest = <<>>
    /\ dnf = [k \in Inputs |-> ZeroCube]
    /\ have_header = FALSE /\ file_vars = 0 /\ cube_count = 0
    /\ current = ZeroCube /\ literals_in_current = 0
    /\ error = "none"

Throw(why) ==
    /\ pc' = "thrown"
    /\ error' = why
    /\ UNCHANGED <<file, next, rest, headerVars, cubeVars>>

Open ==
    /\ pc = "open" /\ file # NoFile
    /\ pc' = "line"
    /\ UNCHANGED <<file, next, rest, headerVars, cubeVars, error>>

OpenFails ==
    /\ pc = "open" /\ file = NoFile
    /\ Throw("cannot open")
-----------------------------------------------------------------------------
(***************************************************************************)
(* The lines.                                                              *)
(***************************************************************************)
AtLine(kind) == pc = "line" /\ next < Len(file) /\ file[next + 1].kind = kind
Line == file[next + 1]

Skip ==
    /\ AtLine("skip")
    /\ next' = next + 1
    /\ UNCHANGED <<pc, file, rest, headerVars, cubeVars, error>>

(***************************************************************************)
(* The throws of a 'p' line, in the order of the code.                     *)
(***************************************************************************)
HeaderFault ==
    IF have_header THEN "duplicate 'p' line"
    ELSE IF ~Line.dnf \/ extracted(Line.vars) <= 0 THEN "malformed 'p' line"
    ELSE IF extracted(Line.vars) > VARS THEN "too many variables"
    ELSE IF extracted(Line.cubes) > CUBES THEN "too many cubes"
    ELSE "none"

ReadHeader ==
    /\ AtLine("p") /\ HeaderFault = "none"
    /\ have_header' = TRUE
    /\ file_vars' = extracted(Line.vars)
    /\ current' = ZeroCube /\ literals_in_current' = 0
    /\ next' = next + 1
    /\ UNCHANGED <<pc, file, rest, dnf, cube_count, error>>

RejectHeader == AtLine("p") /\ HeaderFault # "none" /\ Throw(HeaderFault)

BeginLiterals ==
    /\ AtLine("literals") /\ have_header
    /\ rest' = Line.tokens
    /\ pc' = "token"
    /\ UNCHANGED <<file, next, headerVars, cubeVars, error>>

RejectEarlyLiterals ==
    /\ AtLine("literals") /\ ~have_header
    /\ Throw("literals before header")
-----------------------------------------------------------------------------
(***************************************************************************)
(* The tokens of a line of literals.                                       *)
(***************************************************************************)
AtToken == pc = "token" /\ rest # <<>> /\ Head(rest) \notin Unreadable

(***************************************************************************)
(* Mutant: the capacity is not tested at the end of a cube.                *)
(***************************************************************************)
EndCube_unchecked ==
    /\ AtToken /\ Head(rest) = 0
    /\ dnf' = [dnf EXCEPT ![cube_count] = current]
    /\ cube_count' = cube_count + 1
    /\ current' = ZeroCube /\ literals_in_current' = 0
    /\ rest' = Tail(rest)
    /\ UNCHANGED <<pc, file, next, headerVars, error>>

EndCube ==
    /\ AtToken /\ Head(rest) = 0 /\ cube_count < CUBES
    /\ dnf' = [dnf EXCEPT ![cube_count] = current]
    /\ cube_count' = cube_count + 1
    /\ current' = ZeroCube /\ literals_in_current' = 0
    /\ rest' = Tail(rest)
    /\ UNCHANGED <<pc, file, next, headerVars, error>>

RejectExtraCube ==
    /\ AtToken /\ Head(rest) = 0 /\ cube_count >= CUBES
    /\ Throw("more cubes than capacity")

(***************************************************************************)
(* The throws of a literal.                                                *)
(***************************************************************************)
LiteralFault(lit) ==
    IF Abs(lit) > file_vars THEN "literal out of range"
    ELSE IF Abs(lit) \in current.mask THEN "both polarities"
    ELSE "none"

(***************************************************************************)
(* Mutant: the mask is not set.                                            *)
(***************************************************************************)
AddLiteral_no_mask ==
    /\ AtToken /\ Head(rest) # 0
    /\ LiteralFault(Head(rest)) = "none"
    /\ LET var == Abs(Head(rest))
       IN  current' = [current EXCEPT
                          !.bits = IF Head(rest) > 0 THEN @ \cup {var} ELSE @ \ {var}]
    /\ literals_in_current' = literals_in_current + 1
    /\ rest' = Tail(rest)
    /\ UNCHANGED <<pc, file, next, headerVars, dnf, cube_count, error>>

AddLiteral ==
    /\ AtToken /\ Head(rest) # 0
    /\ LiteralFault(Head(rest)) = "none"
    /\ LET var == Abs(Head(rest))
       IN  current' = [current EXCEPT
                          !.mask = @ \cup {var},
                          !.bits = IF Head(rest) > 0 THEN @ \cup {var} ELSE @ \ {var}]
    /\ literals_in_current' = literals_in_current + 1
    /\ rest' = Tail(rest)
    /\ UNCHANGED <<pc, file, next, headerVars, dnf, cube_count, error>>

RejectLiteral ==
    /\ AtToken /\ Head(rest) # 0
    /\ LiteralFault(Head(rest)) # "none"
    /\ Throw(LiteralFault(Head(rest)))

(***************************************************************************)
(* Mutant: the line is read again.                                         *)
(***************************************************************************)
EndLine_again ==
    /\ pc = "token" /\ ~AtToken
    /\ rest' = <<>>
    /\ pc' = "line"
    /\ UNCHANGED <<file, next, headerVars, cubeVars, error>>

(***************************************************************************)
(* The loop over the line ends at its end or at the first token that is no *)
(* int; whatever follows that token is never looked at.                    *)
(***************************************************************************)
EndLine ==
    /\ pc = "token" /\ ~AtToken
    /\ rest' = <<>>
    /\ next' = next + 1
    /\ pc' = "line"
    /\ UNCHANGED <<file, headerVars, cubeVars, error>>
-----------------------------------------------------------------------------
(***************************************************************************)
(* Mutant: a file that ends in the middle of a cube is accepted.           *)
(***************************************************************************)
EndFault_unchecked == IF ~have_header THEN "missing header" ELSE "none"

(***************************************************************************)
(* The end of the file: pad up to the capacity, or throw.                  *)
(***************************************************************************)
EndFault ==
    IF ~have_header THEN "missing header"
    ELSE IF literals_in_current > 0 THEN "ends mid-cube"
    ELSE "none"

AtEnd == pc = "line" /\ next = Len(file)

(***************************************************************************)
(* Mutant: the last cube of the file is padded over.                       *)
(***************************************************************************)
EndFile_pads_last ==
    /\ AtEnd /\ EndFault = "none"
    /\ dnf' = [k \in Inputs |-> IF k + 1 < cube_count THEN dnf[k] ELSE PadCube]
    /\ cube_count' = CUBES
    /\ pc' = "returned"
    /\ UNCHANGED <<file, next, rest, headerVars, current, literals_in_current, error>>

EndFile ==
    /\ AtEnd /\ EndFault = "none"
    /\ dnf' = [k \in Inputs |-> IF k < cube_count THEN dnf[k] ELSE PadCube]
    /\ cube_count' = CUBES
    /\ pc' = "returned"
    /\ UNCHANGED <<file, next, rest, headerVars, current, literals_in_current, error>>

RejectFile == AtEnd /\ EndFault # "none" /\ Throw(EndFault)

Terminating == pc \in {"returned", "thrown"} /\ UNCHANGED vars

Next ==
    \/ Open \/ OpenFails
    \/ Skip \/ ReadHeader \/ RejectHeader \/ BeginLiterals \/ RejectEarlyLiterals
    \/ EndCube \/ RejectExtraCube \/ AddLiteral \/ RejectLiteral \/ EndLine
    \/ EndFile \/ RejectFile
    \/ Terminating

(***************************************************************************)
(* parse is a local function of one thread that waits for nobody: it keeps *)
(* running until it returns or throws.                                     *)
(***************************************************************************)
Spec == Init /\ [][Next]_vars /\ WF_vars(Next)
-----------------------------------------------------------------------------
(***************************************************************************)
(* The type invariant; the counters stay within the arrays they index.     *)
(***************************************************************************)
TypeOK ==
    /\ pc \in {"open", "line", "token", "returned", "thrown"}
    /\ file \in FILES
    /\ pc = "open" => next = 0
    /\ pc \in {"line", "token", "returned"} => file # NoFile /\ next \in 0..Len(file)
    /\ pc = "token" => next < Len(file)
    /\ rest \in Seq(Tokens)
    /\ dnf \in [Inputs -> Cubes]
    /\ have_header \in BOOLEAN /\ file_vars \in 0..VARS
    /\ cube_count \in 0..CUBES
    /\ current \in Cubes /\ literals_in_current = Cardinality(current.mask)

(***************************************************************************)
(* The array that parse returns is one that the circuit may be fed: real   *)
(* cubes, whose bits are 0 outside their mask, then nothing but filler.    *)
(***************************************************************************)
ReturnsParsedDnf == pc = "returned" => dnf \in ParsedDnfs
=============================================================================
