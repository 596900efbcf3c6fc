CONSTANTS
  MaxId = 2
  Writers = {w1, w2}
  Free = Free
SPECIFICATION SpecUnreadable
PROPERTY UnreadableKept
