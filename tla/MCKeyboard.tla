----------------------------- MODULE MCKeyboard -----------------------------
EXTENDS Keyboard

\* one key of each sort: a, left Shift, keypad 8, Up, Caps Lock, right
\* Alt, F1, Print Screen and Pause
MCKeys == {<<30>>, <<42>>, <<72>>, <<E0, 72>>, <<58>>, <<E0, 56>>, <<59>>,
           PrintScreen, Pause}

\* both Alt keys, for which the driver has one flag, and F1
MCAlts == {<<56>>, <<E0, 56>>, <<59>>}
=============================================================================
