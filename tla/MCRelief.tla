------------------------------ MODULE MCRelief --------------------------------
\* Two threads and up to two children; four levels of pressure.  The percentages
\* are apart, equal, above 100 and in the wrong order.
EXTENDS Relief

Percentages == {[disable |-> 2, enable |-> 1], [disable |-> 2, enable |-> 3], [disable |-> 5, enable |-> 0]}
===============================================================================
