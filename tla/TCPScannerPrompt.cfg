\* Two workers waiting for a token when ctx is cancelled.
SPECIFICATION Spec
CONSTANTS
  Total = 2
  NWorkers = 2
PROPERTY
  PromptCancel
