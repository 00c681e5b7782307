SPECIFICATION Spec
CONSTANTS
  Controls = {"up", "down", "mic"}
  Debounce = 2
  NoSample = NoSample
  MaxCommands = 3
INVARIANTS SwitchTold
PROPERTIES Debounced SwitchObeyed
