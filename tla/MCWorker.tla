------------------------------- MODULE MCWorker -------------------------------
EXTENDS Worker
CONSTANTS s1, s2, t1
MCSlots == {s1, s2}
MCTasks == {t1}
===============================================================================
