-------------------------------- MODULE Paths --------------------------------
(***************************************************************************)
(* The transformations normalisePath and normalisePathWin                  *)
(* (transformations/normalise_path.go, normalise_path_win.go).  A path is  *)
(* a sequence of characters, of which one letter stands for any name.      *)
(***************************************************************************)
EXTENDS Texts

Slash == "/"
Back  == "\\"
Dot   == "."

isSlash(c) == c \in {Slash, Back}

Letter(c) == c \notin {Slash, Back, Dot, ":"}

(* What the separator at n, after the server's name, leaves of a UNC path:  *)
(* the volume ends with the share's name, or there is none.                 *)
Share(path, n) ==
    LET ends == {k \in (n + 1)..(Len(path) + 1) : k = Len(path) + 1 \/ isSlash(path[k])} IN
    IF isSlash(path[n + 1]) \/ path[n + 1] = Dot THEN 0
    ELSE (CHOOSE k \in ends : \A e \in ends : k <= e) - 1

(* "c:" or "\\server\share". *)
volumeNameLen(path) ==
    LET l == Len(path)
        seps == {n \in 4..(l - 1) : isSlash(path[n])}
    IN
    IF l < 2 THEN 0
    ELSE IF path[2] = ":" /\ Letter(path[1]) THEN 2
    ELSE IF l >= 5 /\ isSlash(path[1]) /\ isSlash(path[2]) /\ ~isSlash(path[3]) /\ path[3] # Dot /\ seps # {}
    THEN Share(path, CHOOSE n \in seps : \A k \in seps : n <= k)
    ELSE 0

(* mutant: a .. goes back beyond the ones that stay *)
Backtrack_Past(out, dotdot, sep) ==
    LET ends == {k \in 0..(Len(out) - 1) : k = 0 \/ out[k + 1] = sep}
    IN  SubSeq(out, 1, CHOOSE k \in ends : \A e \in ends : e <= k)

(* The output without its last element; what stands up to dotdot stays. *)
Backtrack(out, dotdot, sep) ==
    LET ends == {k \in dotdot..(Len(out) - 1) : k = dotdot \/ out[k + 1] = sep}
    IN  SubSeq(out, 1, CHOOSE k \in ends : \A e \in ends : e <= k)

(* A turn of the loop of clean: an empty element, ".", ".." or a name.      *)
Element(st, sep, rooted) ==
    LET s == st.rest
        next == Cut(s, sep)[1]
        root == IF rooted THEN 1 ELSE 0
    IN
    CASE s[1] = sep        -> [st EXCEPT !.rest = Tail(s)]
      [] next = <<Dot>>    -> [st EXCEPT !.rest = Tail(s)]
      [] next = <<Dot, Dot>> ->
            IF Len(st.out) > st.dotdot
            THEN [st EXCEPT !.rest = Drop(s, 2), !.out = Backtrack(@, st.dotdot, sep)]
            ELSE IF rooted THEN [st EXCEPT !.rest = Drop(s, 2)]
            ELSE LET out == (IF st.out = <<>> THEN <<>> ELSE Append(st.out, sep)) \o next
                 IN  [rest |-> Drop(s, 2), out |-> out, dotdot |-> Len(out)]
      [] OTHER -> [st EXCEPT !.rest = Drop(s, Len(next)),
                             !.out = (IF Len(@) = root THEN @ ELSE Append(@, sep)) \o next]

(* clean after the volume, with the separator of the system: the loop, then *)
(* "." for nothing.  path is not empty.                                     *)
Cleaned(path, sep) ==
    LET rooted == path[1] = sep
        Body(st) == Element(st, sep, rooted)
        out == Turns(Body, [rest |-> IF rooted THEN Tail(path) ELSE path,
                            out |-> IF rooted THEN <<sep>> ELSE <<>>,
                            dotdot |-> IF rooted THEN 1 ELSE 0], Len(path)).out
    IN  IF out = <<>> THEN <<Dot>> ELSE out

(* filepath.Clean on a Unix system, which clean was copied from. *)
FilepathClean(path) == Cleaned(path, Slash)

normalisePath(data) ==
    IF data = <<>> THEN data
    ELSE LET clean == FilepathClean(data)
         IN  IF clean = <<Dot>> THEN <<>>
             ELSE IF Last(data) = Slash THEN Append(clean, Slash) ELSE clean

(* clean of normalise_path_win.go. *)
CleanWin(path) ==
    LET volLen == volumeNameLen(path)
        rest == Drop(path, volLen)
    IN  IF rest # <<>> THEN SubSeq(path, 1, volLen) \o Cleaned(rest, Back)
        ELSE IF volLen > 1 /\ path[2] # ":" THEN path
        ELSE Append(path, Dot)

normalisePathWin(data) ==
    LET clean == CleanWin(data)
        cl == [i \in DOMAIN clean |-> IF clean[i] = Back THEN Slash ELSE clean[i]]
        stripped == IF Len(data) >= 2 /\ StartsWith(cl, <<Dot, Slash>>) THEN Drop(cl, 2) ELSE cl
    IN  IF cl = <<Dot>> THEN <<>>
        ELSE IF Last(data) = Back THEN Append(stripped, Slash) ELSE stripped
-----------------------------------------------------------------------------
(* The elements of a path between its separators. *)
Elements(s, sep) ==
    FoldLeft(LAMBDA es, c : IF c = sep THEN Append(es, <<>>) ELSE [es EXCEPT ![Len(es)] = Append(@, c)],
             <<<<>>>>, s)

(* Where the elements lead, one after the other, from a directory.  Above   *)
(* the root there is the root; above the current directory there is "..".   *)
Resolved(elements, rooted) ==
    FoldLeft(LAMBDA to, e :
                CASE e \in {<<>>, <<Dot>>} -> to
                  [] e = <<Dot, Dot>> -> IF to # <<>> /\ Last(to) # e THEN Front(to)
                                         ELSE IF rooted THEN to ELSE Append(to, e)
                  [] OTHER -> Append(to, e),
             <<>>, elements)

(* The path that leads there, a trailing slash kept, even the root's. *)
Reference(s) ==
    LET rooted == s # <<>> /\ s[1] = Slash
        to == Resolved(Elements(s, Slash), rooted)
        path == (IF rooted THEN <<Slash>> ELSE <<>>)
                \o FlattenSeq([i \in DOMAIN to |-> IF i = 1 THEN to[i] ELSE <<Slash>> \o to[i]])
    IN  IF path = <<>> THEN <<>> ELSE IF Last(s) = Slash THEN Append(path, Slash) ELSE path

(* The same path on the other system. *)
Mirror(s) == [i \in DOMAIN s |-> IF s[i] = Slash THEN Back ELSE s[i]]

(* normalisePath leads where the path leads, element by element, and is the *)
(* same for every path that does; normalisePathWin does the same with       *)
(* backslashes, and after a drive letter, but for an empty path there.      *)
(* Neither changes a path it has normalised, unless that is the root, which *)
(* gets a second slash: normalisePathWin if the path had no slashes, which  *)
(* are not separators to it.                                                *)
PathsResolved ==
    Reader = "path" =>
    /\ Back \notin Range(text) =>
          /\ normalisePath(text) = Reference(text)
          /\ Reference(text) # <<Slash>> => normalisePath(Reference(text)) = Reference(text)
    /\ Back \notin Range(text) =>
          LET win == Mirror(text) IN
          /\ volumeNameLen(win) = 0 => normalisePathWin(win) = Reference(text)
          /\ Reference(text) # <<>> => normalisePathWin(<<"c", ":">> \o win) = <<"c", ":">> \o Reference(text)
    /\ Slash \notin Range(text) =>
          \A volume \in {<<>>, <<"c", ":">>} :
              LET once == normalisePathWin(volume \o text) IN normalisePathWin(once) = once
=============================================================================
