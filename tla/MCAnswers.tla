------------------------------- MODULE MCAnswers --------------------------------
(* The run of Answers.                                                     *)
EXTENDS Answers

(* Groups of pictures: open, closed, with no B pictures and of I pictures  *)
(* alone; the last has one IDR picture to every I picture.                 *)
MCGops ==
  {<<"I", "B", "B", "P", "B", "B">>, <<"IDR", "P", "B", "P", "B">>, <<"I", "P", "P">>,
   <<"I">>, <<"IDR", "P", "B", "I", "B", "B", "P", "B">>}

================================================================================
