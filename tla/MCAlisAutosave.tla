--------------------------- MODULE MCAlisAutosave ---------------------------
EXTENDS AlisAutosave
NoHabits == {}
KeyHabit == {"keys"}
AllHabits == HabitNames
PartialCustomer == {1}
=============================================================================
