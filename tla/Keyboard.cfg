SPECIFICATION Spec
CONSTANTS
  Key = {"lshift", "rshift", "lctrl", "rctrl", "lalt", "ralt", "caps", "numlock",
         "letter", "keypad_del", "delete", "print", "pause"}
  MaxHeld = 4
INVARIANTS
  ModifiersFollowKeys
  CommandsNeedKeys
