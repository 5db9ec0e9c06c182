------------------------------ MODULE MCDialog ------------------------------
(***************************************************************************)
(* A ring of three slots, which holds two keystrokes, and five keystrokes:  *)
(* enough to fill it, to drop one, and to wrap both indices.  A dialog whose *)
(* first and last prompts are alike, with one that asks for nothing between  *)
(* them; chatter that is a part of a prompt, or longer than the tail.        *)
(***************************************************************************)
EXTENDS Dialog

MCSteps == << [expect |-> <<"l", ":">>, send |-> 2],
              [expect |-> <<"w">>, send |-> 0],
              [expect |-> <<"l", ":">>, send |-> 1] >>
MCChatter == { <<>>, <<"l">>, <<":", "l", "x", ":">> }
=============================================================================
