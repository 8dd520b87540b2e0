------------------------------- MODULE MCSession -------------------------------
(* Instance of Session for TLC.                                               *)
EXTENDS Session

\* DEFAULT_DIR is /home/users/.
HomeUsers == <<"/", "h", "o", "m", "e", "/", "u", "s", "e", "r", "s", "/">>

\* Arguments: relative, absolute, upwards, with a slash at the end, twice in the
\* middle or twice at the end, with a part that repeats, with a name that
\* occurs in DEFAULT_DIR, without a slash; as long as a length, an ACK or a number, and longer.
Arguments == {
  <<"a", "/", "b">>, <<"/", "a", "/">>, <<"a", "/", "/", "b">>, <<"a", "/", "b", "/", "a", "/", "b">>,
  <<".", ".", "/", "a", "/", "b">>, <<".", "/", "a">>, <<"s", "/", "s">>, <<"e", "/", "u">>,
  <<"/", "u">>, <<"u", "s", "e", "r", "s", "/", "h">>, <<"a">>, <<"s", "/">>, <<"a", "/", "/">>}

Asked == {Resolve!Stripped(argument) : argument \in Arguments}
Lengths == [d \in Asked |-> Len(d)]

\* The short ones are there.
There == {d \in Asked : Len(d) < 6}
Nothing == <<>>

Files == {
  <<"f">>, <<"a", "/", "f">>, <<"a", "/", "b">>, <<"b", "/", "c", "/", "f">>,
  <<"s", "/", "s">>, <<"a", "/", "b", "/", "a", "/", "b">>}
=============================================================================
